---- MODULE Spec2Model ----
(***************************************************************************)
(* Retrieval core of the curriculum question-answering system:             *)
(*   qa.py          SmartQA  (chapter router, per-query index, search)     *)
(*   chatbot_rag.py MathBuddyChatbot (query rewrite, relevance gate, LLM)  *)
(*   backend/main.py  chatbot start-up and the /chat endpoint              *)
(*   document_qa.py DocumentQA (single-document indexer)                   *)
(*                                                                         *)
(* Units.  A raw similarity or distance is an integer number of 1e-4; a    *)
(* value rounded by round(x, 3) is an integer number of 1e-3.  A raw value *)
(* k stands for the floats in [k, k+1) * 1e-4.                             *)
(* Text.  A formatted string is the sequence of the pieces it is           *)
(* concatenated from: f"Topic: {name}" is <<"Topic: ", name>>.             *)
(***************************************************************************)
EXTENDS Integers, Sequences, FiniteSets, TLC

VARIABLES
    world,            \* the files and environment the process runs against
    pc,               \* position of the server: boot, idle, or a step of get_response
    chatbot_instance, \* main.py: "None" or "ready"
    startup_error,    \* the exception MathBuddyChatbot() raised into main.py, or ""
    chapter_index,    \* SmartQA.chapter_index
    chat_history,     \* MathBuddyChatbot.chat_history
    collections,      \* the in-memory vector store: collection name -> stored chunks
    requests,         \* number of /chat requests received
    user_question,    \* get_response: user_question
    search_query,     \* get_response: search_query
    chapter,          \* ask: chapter (the result of find_chapter)
    data,             \* load_and_search: data
    documents,        \* load_and_search: documents
    collection,       \* load_and_search: name of the collection created by this query
    search_result,    \* get_response: search_result
    outcome,          \* how get_response ended: a returned payload or a raised exception
    http_response,    \* what /chat sent for the last request
    ix_data,          \* the parsed document handed to both indexers
    ix_done,          \* which of the two indexers have run ("dq", "sq")
    dq_documents,     \* DocumentQA.documents
    sq_documents,     \* load_and_search documents built from the same document
    prev_ask,         \* observation: what the previous call of SmartQA.ask returned
    dq_clock,         \* time.time() * 1000, truncated: the millisecond clock
    dq_objects,       \* the DocumentQA instances constructed so far
    dq_error,         \* the exception the last DocumentQA(...) raised, or ""
    dq_query,         \* DocumentQA.ask: what the last call asked of the collection
    dq_results,       \* DocumentQA.ask: the dictionary the last call returned
    dq_contexts,      \* the strings format_for_llm returned for dq_results, in call order
    sq_result,        \* SmartQA.load_and_search and ask's context on the same document
    rewrite_call,     \* _rewrite_query: the LLM call made for the current request, if any
    max_retries,      \* call_llm: max_retries
    attempt,          \* call_llm: the loop variable
    api_calls,        \* the outcomes of client.chat.completions.create, in call order
    llm_outcome,      \* how call_llm ended: returned content or raised exception
    history_file,     \* user_data/quiz_history.json
    quiz_calls,       \* the results passed to save_quiz_result, in call order
    quiz_record       \* what the last save_quiz_result returned

vars == <<world, pc, chatbot_instance, startup_error, chapter_index, chat_history,
          collections, requests, user_question, search_query, chapter, data,
          documents, collection, search_result, outcome, http_response,
          ix_data, ix_done, dq_documents, sq_documents, prev_ask,
          dq_clock, dq_objects, dq_error, dq_query, dq_results, dq_contexts, sq_result,
          rewrite_call, max_retries, attempt, api_calls, llm_outcome,
          history_file, quiz_calls, quiz_record>>

chatVars == <<world, pc, chatbot_instance, startup_error, chapter_index, chat_history,
              collections, requests, user_question, search_query, chapter, data,
              documents, collection, search_result, outcome, http_response>>

indexVars == <<ix_data, ix_done, dq_documents, sq_documents>>

docVars == <<dq_clock, dq_objects, dq_error, dq_query, dq_results, dq_contexts, sq_result>>

retryVars == <<max_retries, attempt, api_calls, llm_outcome>>

quizVars == <<history_file, quiz_calls, quiz_record>>

toolVars == <<retryVars, quizVars>>

-----------------------------------------------------------------------------
(* Bounds *)

MaxRequests == 3      \* /chat requests per run
NumNames == 2         \* size of the space the random collection name is drawn from
MaxObjectives == 2    \* learning objectives per topic in the indexer inputs
MaxBlocks == 2        \* content blocks per topic in the indexer inputs
MaxTopics == 2        \* topics per document in the indexer inputs

(* Program constants *)

RelevanceThreshold == 450   \* 0.45, in 1e-3
ChatNResults == 5           \* n_results passed by get_response
MaxSources == 3             \* chunks[:3]
RewriteWindow == 4          \* chat_history[-4:]

-----------------------------------------------------------------------------
(* Generic helpers *)

Min(a, b) == IF a <= b THEN a ELSE b

Get(d, key, default) == IF key \in DOMAIN d THEN d[key] ELSE default

Take(s, n) == SubSeq(s, 1, Min(n, Len(s)))

\* s[-n:]
LastN(s, n) == SubSeq(s, Len(s) - Min(n, Len(s)) + 1, Len(s))

RECURSIVE Join(_, _)
Join(items, sep) ==
    IF Len(items) = 0 THEN <<>>
    ELSE IF Len(items) = 1 THEN <<items[1]>>
    ELSE <<items[1], sep>> \o Join(Tail(items), sep)

BlankStrings == {"", " ", "  "}

IsBlank(s) == s \in BlankStrings

Round3(raw) == (raw + 5) \div 10

JDict(fields) == [kind |-> "dict", fields |-> fields]

JStr(s) == [kind |-> "str", fields |-> [value |-> s]]

Encode(text) == [of |-> text]

-----------------------------------------------------------------------------
(* The inputs: chapter-mapping files, chapter documents, questions *)

TopicFractions ==
    JDict([topic_id |-> "T1", topic_name |-> "Fractions",
           learning_objectives |-> <<"Understand numerators", "Compare fractions">>,
           allowed_concepts |-> <<"numerator", "denominator", "half">>,
           disallowed_concepts |-> <<>>,
           content_blocks |-> <<
               JDict([block_id |-> "B1", type |-> "definition",
                      text |-> "A fraction represents a part of a whole."]),
               JDict([block_id |-> "B2", type |-> "explanation",
                      text |-> "The denominator counts equal parts."]),
               JDict([block_id |-> "B3", type |-> "example", text |-> " "]),
               JDict([block_id |-> "B4", type |-> "example",
                      text |-> "Half of a pizza is 1/2."]) >>])

TopicDecimals ==
    JDict([topic_id |-> "T2", topic_name |-> "Decimals",
           learning_objectives |-> <<"Read decimal places">>,
           allowed_concepts |-> <<>>,
           disallowed_concepts |-> <<"irrational numbers">>,
           content_blocks |-> <<
               JDict([block_id |-> "B1",
                      text |-> "A decimal point separates whole and part."]) >>])

TopicLines ==
    JDict([topic_id |-> "T3", topic_name |-> "Lines",
           learning_objectives |-> <<>>,
           allowed_concepts |-> <<"parallel">>,
           disallowed_concepts |-> <<>>,
           content_blocks |-> <<
               JDict([block_id |-> "B1", type |-> "definition",
                      text |-> "Parallel lines never meet."]) >>])

\* A JSON file on disk: absent, unparseable, or a parsed JSON value.
FileMissing == [kind |-> "missing", value |-> <<>>]
FileBadJson == [kind |-> "badjson", value |-> <<>>]
FileNumber == [kind |-> "number", value |-> <<>>]
FileObject(obj) == [kind |-> "dict", value |-> <<obj>>]
FileArray(items) == [kind |-> "list", value |-> items]
\* A JSON object read as the sequence of its (key, value) items, in file order.
FileItems(items) == [kind |-> "dict", value |-> items]

FilesA ==
    { FileMissing, FileBadJson, FileNumber,
      FileObject(JDict([title |-> "notes"])),
      FileObject(TopicFractions),
      FileArray(<<TopicFractions, TopicDecimals>>) }

FilesB ==
    { FileArray(<<TopicLines>>), FileArray(<<>>), FileArray(<<JStr("Lines")>>) }

MappingTwoPdfs ==
    << [pdf |-> "ch1.pdf", chapters |-> <<"Fractions", "Decimals">>, json_file |-> "fA.json"],
       [pdf |-> "ch2.pdf", chapters |-> <<"Lines">>, json_file |-> "fB.json"] >>

MappingNoChapters == << [pdf |-> "ch1.pdf", json_file |-> "fA.json"] >>

\* A mapping whose only PDF lists no chapter.
MappingEmptyChapters == << [pdf |-> "ch1.pdf", chapters |-> <<>>, json_file |-> "fA.json"] >>

MappingFiles ==
    { FileMissing, FileBadJson, FileArray(<<>>),
      FileItems(MappingNoChapters), FileItems(<<>>), FileItems(MappingEmptyChapters),
      FileItems(MappingTwoPdfs) }

GoodFiles == [fA |-> FileObject(TopicFractions), fB |-> FileArray(<<TopicLines>>)]

\* Start-up environments: every chapter document combination under the good
\* mapping, and every broken start-up under the good documents.
Worlds ==
    { [mapping |-> FileItems(MappingTwoPdfs), embedder_ok |-> TRUE, api_key |-> TRUE,
       files |-> [fA |-> a, fB |-> b]] : a \in FilesA, b \in FilesB }
    \cup
    { [mapping |-> m, embedder_ok |-> e, api_key |-> k, files |-> GoodFiles] :
          m \in MappingFiles, e \in BOOLEAN, k \in BOOLEAN }

Questions == {"q_fraction", "q_tie", "q_offtopic", "q_boundary", "q_roundup"}

\* The questions put to the per-document engines: one that asks for the
\* definition ("What is a fraction?") and one off the document's topics.
DocQuestions == {"q_define", "q_boundary"}

\* The questions of the several-turn conversation: one on a chapter, and two
\* whose raw chapter similarity is just below 0.45 and rounds to 0.450 and to
\* 0.449.
ChatQuestions == {"q_fraction", "q_roundup", "q_rounddown"}

\* Cosine similarity of the question and chapter-name embeddings, in 1e-4.
SimTable ==
    [q \in Questions \cup DocQuestions \cup ChatQuestions |->
        CASE q = "q_fraction" -> [Fractions |-> 8000, Decimals |-> 3000, Lines |-> 1000]
          [] q = "q_define"   -> [Fractions |-> 9000, Decimals |-> 1000, Lines |-> 1000]
          [] q = "q_tie"      -> [Fractions |-> 2000, Decimals |-> 4600, Lines |-> 4600]
          [] q = "q_offtopic" -> [Fractions |-> 4400, Decimals |-> 1000, Lines |-> 4399]
          [] q = "q_boundary" -> [Fractions |-> 1000, Decimals |-> 2000, Lines |-> 4500]
          [] q = "q_roundup"  -> [Fractions |-> 1500, Decimals |-> 1500, Lines |-> 4496]
          [] q = "q_rounddown" -> [Fractions |-> 1500, Decimals |-> 1500, Lines |-> 4494] ]

CosineSimilarity(u, v) == SimTable[u.of][v.of]

\* The embedding model's view of the pieces of text: a 1-dimensional code.
Tokens ==
    << "Topic: ", "Learning Objective: ", "Concepts: ", ", ",
       "Allowed concepts for ", ": ", "Disallowed concepts (too advanced): ",
       "Fractions", "Decimals", "Lines", "",
       "Understand numerators", "Compare fractions", "Read decimal places",
       "numerator", "denominator", "half", "parallel", "irrational numbers",
       "A fraction represents a part of a whole.",
       "The denominator counts equal parts.", "Half of a pizza is 1/2.",
       "A decimal point separates whole and part.", "Parallel lines never meet.",
       "q_fraction", "q_tie", "q_offtopic", "q_boundary", "q_roundup",
       "lo1", "lo2", "c1", "d1", "text1", "text2", " ", "q_define", "q_rounddown" >>

TokenCode(t) == CHOOSE i \in 1..Len(Tokens) : Tokens[i] = t

RECURSIVE TextCode(_)
TextCode(text) ==
    IF Len(text) = 0 THEN 0 ELSE TokenCode(text[1]) + 3 * TextCode(Tail(text))

\* Distance between a query embedding and a stored embedding, in 1e-4
\* (the store's default metric; 1 - distance may be negative).  The question
\* that asks for a definition is nearest to the content blocks, then to the
\* topic banners.
Distance(qv, dv) ==
    IF qv.of = "q_define"
        THEN (IF Len(dv.of) = 1 THEN 2000 ELSE IF dv.of[1] = "Topic: " THEN 5000 ELSE 7000)
    ELSE ((TokenCode(qv.of) * 7 + TextCode(dv.of) * 5) % 9) * 1500

-----------------------------------------------------------------------------
(* qa.py: SmartQA *)

JsonOutputDir == "class7/json_output/"

\* The file a json_path of the chapter index names.
FileAt(w, json_path) ==
    IF json_path = JsonOutputDir \o "fA.json" THEN w.files.fA
    ELSE IF json_path = JsonOutputDir \o "fB.json" THEN w.files.fB
    ELSE FileMissing

RECURSIVE ChaptersOf(_, _)
ChaptersOf(pdf_data, names) ==
    IF Len(names) = 0 THEN <<>>
    ELSE << [chapter_name |-> names[1],
             json_file |-> pdf_data.json_file,
             json_path |-> JsonOutputDir \o pdf_data.json_file,
             embedding |-> Encode(names[1])] >>
         \o ChaptersOf(pdf_data, Tail(names))

RECURSIVE BuildChapterIndex(_)
BuildChapterIndex(items) ==
    IF Len(items) = 0 THEN <<>>
    ELSE ChaptersOf(items[1], items[1].chapters) \o BuildChapterIndex(Tail(items))

\* A constructor that refuses a mapping without chapters.
SmartQAInitRejectEmpty(w) ==
    IF w.mapping.kind = "missing" THEN [ok |-> FALSE, error |-> "FileNotFoundError", index |-> <<>>]
    ELSE IF w.mapping.kind = "badjson" THEN [ok |-> FALSE, error |-> "JSONDecodeError", index |-> <<>>]
    ELSE IF ~w.embedder_ok THEN [ok |-> FALSE, error |-> "OSError", index |-> <<>>]
    ELSE IF w.mapping.kind # "dict" THEN [ok |-> FALSE, error |-> "AttributeError", index |-> <<>>]
    ELSE IF \E i \in 1..Len(w.mapping.value) : "chapters" \notin DOMAIN w.mapping.value[i]
        THEN [ok |-> FALSE, error |-> "KeyError", index |-> <<>>]
    ELSE IF BuildChapterIndex(w.mapping.value) = <<>>
        THEN [ok |-> FALSE, error |-> "ValueError", index |-> <<>>]
    ELSE [ok |-> TRUE, error |-> "", index |-> BuildChapterIndex(w.mapping.value)]

\* SmartQA.__init__: the chapter index, or the exception it raises.
SmartQAInit(w) ==
    IF w.mapping.kind = "missing" THEN [ok |-> FALSE, error |-> "FileNotFoundError", index |-> <<>>]
    ELSE IF w.mapping.kind = "badjson" THEN [ok |-> FALSE, error |-> "JSONDecodeError", index |-> <<>>]
    ELSE IF ~w.embedder_ok THEN [ok |-> FALSE, error |-> "OSError", index |-> <<>>]
    ELSE IF w.mapping.kind # "dict" THEN [ok |-> FALSE, error |-> "AttributeError", index |-> <<>>]
    ELSE IF \E i \in 1..Len(w.mapping.value) : "chapters" \notin DOMAIN w.mapping.value[i]
        THEN [ok |-> FALSE, error |-> "KeyError", index |-> <<>>]
    ELSE [ok |-> TRUE, error |-> "", index |-> BuildChapterIndex(w.mapping.value)]

\* A sort that is descending but puts the later of two equal keys first.
RECURSIVE InsertBySimilarityUnstable(_, _)
InsertBySimilarityUnstable(sorted, x) ==
    IF Len(sorted) = 0 THEN <<x>>
    ELSE IF sorted[1].similarity > x.similarity
        THEN <<sorted[1]>> \o InsertBySimilarityUnstable(Tail(sorted), x)
    ELSE <<x>> \o sorted

\* list.sort(key=similarity, reverse=True): stable, descending.
RECURSIVE InsertBySimilarity(_, _)
InsertBySimilarity(sorted, x) ==
    IF Len(sorted) = 0 THEN <<x>>
    ELSE IF sorted[1].similarity >= x.similarity
        THEN <<sorted[1]>> \o InsertBySimilarity(Tail(sorted), x)
    ELSE <<x>> \o sorted

RECURSIVE SortBySimilarity(_)
SortBySimilarity(s) ==
    IF Len(s) = 0 THEN <<>>
    ELSE InsertBySimilarity(SortBySimilarity(SubSeq(s, 1, Len(s) - 1)), s[Len(s)])

Similarities(index, question) ==
    [i \in 1..Len(index) |->
        [chapter_name |-> index[i].chapter_name,
         json_file |-> index[i].json_file,
         json_path |-> index[i].json_path,
         embedding |-> index[i].embedding,
         similarity |-> CosineSimilarity(Encode(question), index[i].embedding)]]

\* SmartQA.find_chapter; similarities[0] raises IndexError on an empty index.
FindChapterResult(index, question) == SortBySimilarity(Similarities(index, question))

\* A find_chapter that sorts self.chapter_index itself, by the similarity to
\* the question, instead of a list of copies.
ChapterIndexSortedInPlace(index, question) ==
    LET ranked == FindChapterResult(index, question)
    IN [i \in 1..Len(ranked) |->
           [chapter_name |-> ranked[i].chapter_name,
            json_file |-> ranked[i].json_file,
            json_path |-> ranked[i].json_path,
            embedding |-> ranked[i].embedding]]

\* self.chapter_index after a call of find_chapter: each entry is copied into
\* a new dict ({**chapter, 'similarity': ...}) and the list that is sorted is
\* the local list of copies.
ChapterIndexAfterFind(index, question) == index

\* load_and_search, lines 73-78: json.load and the dict -> [dict] normalisation.
LoadJson(file) ==
    IF file.kind = "missing" THEN [ok |-> FALSE, error |-> "FileNotFoundError", data |-> FileArray(<<>>)]
    ELSE IF file.kind = "badjson" THEN [ok |-> FALSE, error |-> "JSONDecodeError", data |-> FileArray(<<>>)]
    ELSE IF file.kind = "dict" THEN [ok |-> TRUE, error |-> "", data |-> FileArray(<<file.value[1]>>)]
    ELSE [ok |-> TRUE, error |-> "", data |-> file]

\* An append that forgets doc_id += 1.
EmitSameId(acc, text, metadata) ==
    [docs |-> Append(acc.docs, [id |-> ToString(acc.doc_id), text |-> text, metadata |-> metadata]),
     doc_id |-> acc.doc_id]

\* documents.append({...}); doc_id += 1
Emit(acc, text, metadata) ==
    [docs |-> Append(acc.docs, [id |-> ToString(acc.doc_id), text |-> text, metadata |-> metadata]),
     doc_id |-> acc.doc_id + 1]

RECURSIVE SQEmitObjectives(_, _, _)
SQEmitObjectives(acc, los, topic_name) ==
    IF Len(los) = 0 THEN acc
    ELSE SQEmitObjectives(
             Emit(acc, <<"Learning Objective: ", los[1]>>,
                  [topic_name |-> topic_name, doc_type |-> "objective"]),
             Tail(los), topic_name)

\* A content-block loop in which a skipped blank block still takes an id.
RECURSIVE SQEmitBlocksCountBlank(_, _, _)
SQEmitBlocksCountBlank(acc, blocks, topic_name) ==
    IF Len(blocks) = 0 THEN acc
    ELSE LET block == blocks[1].fields
             next == IF ~IsBlank(Get(block, "text", ""))
                         THEN Emit(acc, <<block.text>>,
                                   [topic_name |-> topic_name,
                                    doc_type |-> "content_" \o Get(block, "type", "text")])
                     ELSE [docs |-> acc.docs, doc_id |-> acc.doc_id + 1]
         IN SQEmitBlocksCountBlank(next, Tail(blocks), topic_name)

RECURSIVE SQEmitBlocks(_, _, _)
SQEmitBlocks(acc, blocks, topic_name) ==
    IF Len(blocks) = 0 THEN acc
    ELSE LET block == blocks[1].fields
             next == IF ~IsBlank(Get(block, "text", ""))
                         THEN Emit(acc, <<block.text>>,
                                   [topic_name |-> topic_name,
                                    doc_type |-> "content_" \o Get(block, "type", "text")])
                     ELSE acc
         IN SQEmitBlocks(next, Tail(blocks), topic_name)

\* A topic loop that also emits the disallowed concepts, as DocumentQA does.
SQEmitTopicWithDisallowed(acc, topic) ==
    LET topic_name == Get(topic, "topic_name", "")
        a1 == Emit(acc, <<"Topic: ", topic_name>>,
                   [topic_name |-> topic_name, doc_type |-> "topic"])
        a2 == SQEmitObjectives(a1, Get(topic, "learning_objectives", <<>>), topic_name)
        allowed == Get(topic, "allowed_concepts", <<>>)
        a3 == IF Len(allowed) > 0
                  THEN Emit(a2, <<"Concepts: ">> \o Join(allowed, ", "),
                            [topic_name |-> topic_name, doc_type |-> "concepts"])
              ELSE a2
        disallowed == Get(topic, "disallowed_concepts", <<>>)
        a4 == IF Len(disallowed) > 0
                  THEN Emit(a3, <<"Disallowed concepts (too advanced): ">>
                                    \o Join(disallowed, ", "),
                            [topic_name |-> topic_name, doc_type |-> "concepts"])
              ELSE a3
    IN SQEmitBlocks(a4, Get(topic, "content_blocks", <<>>), topic_name)

\* One iteration of "for topic in data" in load_and_search (lines 84-123).
SQEmitTopic(acc, topic) ==
    LET topic_name == Get(topic, "topic_name", "")
        a1 == Emit(acc, <<"Topic: ", topic_name>>,
                   [topic_name |-> topic_name, doc_type |-> "topic"])
        a2 == SQEmitObjectives(a1, Get(topic, "learning_objectives", <<>>), topic_name)
        allowed == Get(topic, "allowed_concepts", <<>>)
        a3 == IF Len(allowed) > 0
                  THEN Emit(a2, <<"Concepts: ">> \o Join(allowed, ", "),
                            [topic_name |-> topic_name, doc_type |-> "concepts"])
              ELSE a2
    IN SQEmitBlocks(a3, Get(topic, "content_blocks", <<>>), topic_name)

RECURSIVE SQEmitTopics(_, _)
SQEmitTopics(acc, topics) ==
    IF Len(topics) = 0 THEN acc
    ELSE SQEmitTopics(SQEmitTopic(acc, topics[1].fields), Tail(topics))

\* load_and_search, lines 80-123: the documents list, or the exception raised
\* when data is not iterable or an item has no .get.
SQCreateDocuments(d) ==
    IF d.kind # "list" THEN [ok |-> FALSE, error |-> "TypeError", docs |-> <<>>]
    ELSE IF \E i \in 1..Len(d.value) : d.value[i].kind # "dict"
        THEN [ok |-> FALSE, error |-> "AttributeError", docs |-> <<>>]
    ELSE [ok |-> TRUE, error |-> "",
          docs |-> SQEmitTopics([docs |-> <<>>, doc_id |-> 0], d.value).docs]

-----------------------------------------------------------------------------
(* document_qa.py: DocumentQA._create_documents *)

RECURSIVE DQEmitObjectives(_, _, _)
DQEmitObjectives(acc, los, base) ==
    IF Len(los) = 0 THEN acc
    ELSE DQEmitObjectives(
             Emit(acc, <<"Learning Objective: ", los[1]>>,
                  [unit |-> base.unit, topic_id |-> base.topic_id,
                   topic_name |-> base.topic_name, source_file |-> base.source_file,
                   doc_type |-> "learning_objective"]),
             Tail(los), base)

\* A content-block loop without the blank-text check.
RECURSIVE DQEmitBlocksKeepBlank(_, _, _)
DQEmitBlocksKeepBlank(acc, blocks, base) ==
    IF Len(blocks) = 0 THEN acc
    ELSE DQEmitBlocksKeepBlank(
             Emit(acc, <<Get(blocks[1].fields, "text", "")>>,
                  [unit |-> base.unit, topic_id |-> base.topic_id,
                   topic_name |-> base.topic_name, source_file |-> base.source_file,
                   doc_type |-> "content_" \o Get(blocks[1].fields, "type", "unknown"),
                   block_id |-> Get(blocks[1].fields, "block_id", "")]),
             Tail(blocks), base)

RECURSIVE DQEmitBlocks(_, _, _)
DQEmitBlocks(acc, blocks, base) ==
    IF Len(blocks) = 0 THEN acc
    ELSE LET block == blocks[1].fields
             block_text == Get(block, "text", "")
             next == IF ~IsBlank(block_text)
                         THEN Emit(acc, <<block_text>>,
                                   [unit |-> base.unit, topic_id |-> base.topic_id,
                                    topic_name |-> base.topic_name,
                                    source_file |-> base.source_file,
                                    doc_type |-> "content_" \o Get(block, "type", "unknown"),
                                    block_id |-> Get(block, "block_id", "")])
                     ELSE acc
         IN DQEmitBlocks(next, Tail(blocks), base)

\* One iteration of "for topic in self.data" in _create_documents (lines 84-147).
DQEmitTopic(acc, topic, unit_name, source_file) ==
    LET base == [unit |-> Get(topic, "unit", unit_name),
                 topic_id |-> Get(topic, "topic_id", ""),
                 topic_name |-> Get(topic, "topic_name", ""),
                 source_file |-> source_file]
        meta(t) == [unit |-> base.unit, topic_id |-> base.topic_id,
                    topic_name |-> base.topic_name, source_file |-> base.source_file,
                    doc_type |-> t]
        a1 == Emit(acc, <<"Topic: ", base.topic_name>>, meta("topic_overview"))
        a2 == DQEmitObjectives(a1, Get(topic, "learning_objectives", <<>>), base)
        allowed == Get(topic, "allowed_concepts", <<>>)
        a3 == IF Len(allowed) > 0
                  THEN Emit(a2, <<"Allowed concepts for ", base.topic_name, ": ">>
                                    \o Join(allowed, ", "),
                            meta("allowed_concepts"))
              ELSE a2
        disallowed == Get(topic, "disallowed_concepts", <<>>)
        a4 == IF Len(disallowed) > 0
                  THEN Emit(a3, <<"Disallowed concepts (too advanced): ">>
                                    \o Join(disallowed, ", "),
                            meta("disallowed_concepts"))
              ELSE a3
    IN DQEmitBlocks(a4, Get(topic, "content_blocks", <<>>), base)

RECURSIVE DQEmitTopics(_, _, _, _)
DQEmitTopics(acc, topics, unit_name, source_file) ==
    IF Len(topics) = 0 THEN acc
    ELSE DQEmitTopics(DQEmitTopic(acc, topics[1].fields, unit_name, source_file),
                      Tail(topics), unit_name, source_file)

\* DocumentQA._create_documents over self.data.
DQCreateDocuments(topics, unit_name, source_file) ==
    DQEmitTopics([docs |-> <<>>, doc_id |-> 0], topics, unit_name, source_file).docs

-----------------------------------------------------------------------------
(* qa.py: the per-query vector index and the search (lines 125-161) *)

CollectionName(n) == "temp_" \o ToString(n)

CollectionNames == { CollectionName(n) : n \in 0..(NumNames - 1) }

\* An add whose metadatas list is not aligned with the ids: every entry gets
\* the metadata of the first document.
StoredEntriesFirstMetadata(docs) ==
    [i \in 1..Len(docs) |->
        [id |-> docs[i].id, document |-> docs[i].text,
         embedding |-> Encode(docs[i].text), metadata |-> docs[1].metadata]]

\* collection.add(ids, documents, embeddings, metadatas)
StoredEntries(docs) ==
    [i \in 1..Len(docs) |->
        [id |-> docs[i].id, document |-> docs[i].text,
         embedding |-> Encode(docs[i].text), metadata |-> docs[i].metadata]]

\* A query that searches every collection the process has built.
RECURSIVE AllEntries(_, _)
AllEntries(store, names) ==
    IF names = {} THEN <<>>
    ELSE LET n == CHOOSE x \in names : TRUE
         IN store[n] \o AllEntries(store, names \ {n})

QueryScopeAll(store, name) == AllEntries(store, DOMAIN store)

\* The entries a query on the collection `name` searches.
QueryScope(store, name) == store[name]

RECURSIVE InsertByDistance(_, _)
InsertByDistance(sorted, x) ==
    IF Len(sorted) = 0 THEN <<x>>
    ELSE IF sorted[1].distance <= x.distance
        THEN <<sorted[1]>> \o InsertByDistance(Tail(sorted), x)
    ELSE <<x>> \o sorted

RECURSIVE SortByDistance(_)
SortByDistance(s) ==
    IF Len(s) = 0 THEN <<>>
    ELSE InsertByDistance(SortByDistance(SubSeq(s, 1, Len(s) - 1)), s[Len(s)])

\* collection.query(query_embeddings=[qv], n_results=n): the n nearest entries,
\* nearest first.
QueryCollection(entries, qv, n) ==
    Take(SortByDistance(
             [i \in 1..Len(entries) |->
                 [document |-> entries[i].document, metadata |-> entries[i].metadata,
                  distance |-> Distance(qv, entries[i].embedding)]]), n)

\* load_and_search, lines 146-161.
ChunksOf(results) ==
    [i \in 1..Len(results) |->
        [text |-> results[i].document,
         type |-> Get(results[i].metadata, "doc_type", ""),
         topic |-> Get(results[i].metadata, "topic_name", ""),
         relevance |-> Round3(10000 - results[i].distance)]]

\* f"{x:.1%}" of a value given in 1e-3.
Percent1(permille) ==
    LET a == IF permille < 0 THEN 0 - permille ELSE permille
    IN (IF permille < 0 THEN "-" ELSE "") \o ToString(a \div 10) \o "." \o ToString(a % 10) \o "%"

\* A label that is upper-cased without the content_ prefix being removed.
TypeLabelKeepPrefix(t) ==
    CASE t = "topic" -> "TOPIC"
      [] t = "objective" -> "OBJECTIVE"
      [] t = "concepts" -> "CONCEPTS"
      [] t = "content_definition" -> "CONTENT_DEFINITION"
      [] t = "content_explanation" -> "CONTENT_EXPLANATION"
      [] t = "content_example" -> "CONTENT_EXAMPLE"
      [] t = "content_text" -> "CONTENT_TEXT"
      [] OTHER -> ""

\* chunk['type'].replace('content_', '').upper()
TypeLabel(t) ==
    CASE t = "topic" -> "TOPIC"
      [] t = "objective" -> "OBJECTIVE"
      [] t = "concepts" -> "CONCEPTS"
      [] t = "content_definition" -> "DEFINITION"
      [] t = "content_explanation" -> "EXPLANATION"
      [] t = "content_example" -> "EXAMPLE"
      [] t = "content_text" -> "TEXT"
      [] OTHER -> ""

Rule70 == "======================================================================"

RECURSIVE ChunkLines(_, _)
ChunkLines(chunks, i) ==
    IF i > Len(chunks) THEN <<>>
    ELSE << <<"\n[", TypeLabel(chunks[i].type), " #", ToString(i), "] (Relevance: ",
              Percent1(chunks[i].relevance), ")">>,
            chunks[i].text >>
         \o ChunkLines(chunks, i + 1)

\* ask, lines 184-203: the context block, one entry per joined line.
FormatContext(ch, question, chunks) ==
    << <<Rule70>>, <<"CONTEXT FROM NCERT CLASS 7 MATHEMATICS">>, <<Rule70>>,
       <<"\nCHAPTER: ", ch.chapter_name>>,
       <<"RELEVANCE: ", Percent1(Round3(ch.similarity))>>,
       <<"\nQUESTION: ", question>>,
       <<"\n", Rule70>>, <<"\nRELEVANT CONTENT:\n">> >>
    \o ChunkLines(chunks, 1)
    \o << <<"\n", Rule70>>, <<"END OF CONTEXT">>, <<Rule70>> >>

\* ask, lines 205-212.
AskResult(ch, question, chunks) ==
    [question |-> question,
     chapter |-> ch.chapter_name,
     chapter_file |-> ch.json_file,
     chapter_relevance |-> Round3(ch.similarity),
     chunks |-> chunks,
     context |-> FormatContext(ch, question, chunks)]

-----------------------------------------------------------------------------
(* chatbot_rag.py: MathBuddyChatbot;  backend/main.py: start-up and /chat *)

NoValue == [none |-> TRUE]
NoOutcome == [kind |-> "none", value |-> NoValue]
NoFile == FileArray(<<>>)

\* call_llm not entered, and inside its loop.
CallIdle == [kind |-> "idle", value |-> ""]
CallRunning == [kind |-> "running", value |-> ""]

RefusalText == "I'm sorry, I couldn't find any relevant information in the current curriculum to answer your question. I am strictly limited to the provided curriculum material."

Answers == {"answer text"}

\* What the rewriting LLM call may return (after .strip()).
RewriteOutputs == {"q_fraction", "\"q_tie\""}

\* rewritten.replace('"', '')
StripQuotes(s) == IF s = "\"q_tie\"" THEN "q_tie" ELSE s

\* A constructor that swallows the SmartQA failure and goes on with no chapters.
MathBuddyChatbotInitSwallow(w) ==
    LET qa == SmartQAInit(w)
    IN IF ~w.api_key
           THEN [ok |-> FALSE, error |-> <<"GROQ_API_KEY not found in .env file">>, index |-> <<>>]
       ELSE [ok |-> TRUE, error |-> <<>>, index |-> qa.index]

\* MathBuddyChatbot.__init__: the SmartQA exception is re-raised wrapped; a
\* missing GROQ_API_KEY raises.
MathBuddyChatbotInit(w) ==
    LET qa == SmartQAInit(w)
    IN IF ~qa.ok
           THEN [ok |-> FALSE, error |-> <<"Error initializing SmartQA: ", qa.error>>, index |-> <<>>]
       ELSE IF ~w.api_key
           THEN [ok |-> FALSE, error |-> <<"GROQ_API_KEY not found in .env file">>, index |-> <<>>]
       ELSE [ok |-> TRUE, error |-> <<>>, index |-> qa.index]

\* A handler that lets the exception out of get_response.
Propagate(e) == [kind |-> "raise", value |-> [exception |-> e]]

\* get_response, lines 166-167: except Exception as e: return {'error': str(e)}
Catch(e) == [kind |-> "return", value |-> [error |-> e]]

\* A refusal that leaves out the sources key.
RefusalPayloadNoSources(relevance) ==
    [answer |-> RefusalText, chapter |-> "None", relevance |-> relevance]

\* get_response, lines 107-113.
RefusalPayload(relevance) ==
    [answer |-> RefusalText, chapter |-> "None", relevance |-> relevance, sources |-> <<>>]

\* A success payload that cites the last three chunks instead of the first.
SuccessPayloadLastSources(response, result) ==
    [answer |-> response, chapter |-> result.chapter,
     relevance |-> result.chapter_relevance,
     sources |-> SubSeq(result.chunks,
                        Len(result.chunks) - Min(MaxSources, Len(result.chunks)) + 1,
                        Len(result.chunks))]

\* get_response, lines 159-164.
SuccessPayload(response, result) ==
    [answer |-> response, chapter |-> result.chapter,
     relevance |-> result.chapter_relevance,
     sources |-> Take(result.chunks, MaxSources)]

\* A memory update that stores the rewritten search query as the user's turn.
HistoryAfterAnswerRewritten(history, question, response) ==
    history \o << [role |-> "user", content |-> search_query],
                  [role |-> "assistant", content |-> response] >>

\* get_response, lines 155-157: the two appends to self.chat_history.
HistoryAfterAnswer(history, question, response) ==
    history \o << [role |-> "user", content |-> question],
                  [role |-> "assistant", content |-> response] >>

\* A gate that compares the unrounded chapter similarity with 0.45.
BelowThresholdRaw(relevance) == chapter.similarity < RelevanceThreshold * 10

\* get_response, line 107: the relevance gate.
BelowThreshold(relevance) == relevance < RelevanceThreshold

\* chat_endpoint, lines 327-341, for a response of get_response.
EndpointBody(response) ==
    IF "error" \in DOMAIN response
        THEN [answer |-> <<"Chatbot Error: ", response.error>>, chapter |-> "System Error",
              relevance |-> 0, sources |-> <<>>]
    ELSE response

OfflineBody ==
    [answer |-> "Chatbot is offline (Check API Keys or Init).", chapter |-> "System",
     relevance |-> 0]

ClearLocals ==
    /\ user_question' = ""
    /\ search_query' = ""
    /\ chapter' = NoValue
    /\ data' = NoFile
    /\ documents' = <<>>
    /\ collection' = ""
    /\ search_result' = NoValue
    /\ outcome' = NoOutcome
    /\ rewrite_call' = NoValue

\* The call of get_response ends: it returns a payload or lets an exception out.
Finish(o) ==
    /\ outcome' = o
    /\ pc' = "respond"

\* main.py, lines 57-66: chatbot_instance = MathBuddyChatbot(), None on failure.
Startup ==
    /\ pc = "boot"
    /\ LET r == MathBuddyChatbotInit(world)
       IN /\ chatbot_instance' = IF r.ok THEN "ready" ELSE "None"
          /\ startup_error' = r.error
          /\ chapter_index' = r.index
    /\ pc' = "idle"
    /\ UNCHANGED <<world, chat_history, collections, requests, user_question,
                   search_query, chapter, data, documents, collection, search_result,
                   outcome, http_response>>
    /\ UNCHANGED indexVars
    /\ UNCHANGED <<docVars, prev_ask, rewrite_call, toolVars>>

\* POST /chat while the chatbot is offline (lines 327-328).
ChatOffline ==
    /\ pc = "idle"
    /\ requests < MaxRequests
    /\ chatbot_instance = "None"
    /\ requests' = requests + 1
    /\ http_response' = [status |-> 200, body |-> OfflineBody]
    /\ UNCHANGED <<world, pc, chatbot_instance, startup_error, chapter_index,
                   chat_history, collections, user_question, search_query, chapter,
                   data, documents, collection, search_result, outcome>>
    /\ UNCHANGED indexVars
    /\ UNCHANGED <<docVars, prev_ask, rewrite_call, toolVars>>

\* POST /chat: get_response(request.message) is entered, for one of the
\* given questions, while fewer than limit requests have been received.
ChatRequestFrom(limit, questions) ==
    /\ pc = "idle"
    /\ requests < limit
    /\ chatbot_instance = "ready"
    /\ \E q \in questions : user_question' = q
    /\ requests' = requests + 1
    /\ http_response' = [status |-> 0, body |-> NoValue]
    /\ pc' = "rewrite"
    /\ UNCHANGED <<world, chatbot_instance, startup_error, chapter_index, chat_history,
                   collections, search_query, chapter, data, documents, collection,
                   search_result, outcome>>
    /\ UNCHANGED indexVars
    /\ UNCHANGED <<docVars, prev_ask, rewrite_call, toolVars>>

ChatRequest == ChatRequestFrom(MaxRequests, Questions)

\* A rewriter that puts the whole conversation into the prompt.
RecentHistoryAll(history) == history

\* _rewrite_query, line 50: recent_history = self.chat_history[-4:]
RecentHistory(history) == LastN(history, RewriteWindow)

\* _rewrite_query, lines 58-78: the call of the rewriting LLM, with the
\* history lines and the question its prompt is built from.
RewriteCall(history, question, raised) ==
    [history |-> RecentHistory(history), question |-> question, raised |-> raised]

\* _rewrite_query (lines 41-83): no call on an empty history; otherwise the
\* LLM's answer without quotes, or the question itself when the call raises.
RewriteQuery ==
    /\ pc = "rewrite"
    /\ \/ /\ chat_history = <<>>
          /\ search_query' = user_question
          /\ rewrite_call' = NoValue
       \/ /\ chat_history # <<>>
          /\ \E out \in RewriteOutputs : search_query' = StripQuotes(out)
          /\ rewrite_call' = RewriteCall(chat_history, user_question, FALSE)
       \/ /\ chat_history # <<>>
          /\ search_query' = user_question
          /\ rewrite_call' = RewriteCall(chat_history, user_question, TRUE)
    /\ pc' = "find_chapter"
    /\ UNCHANGED <<world, chatbot_instance, startup_error, chapter_index, chat_history,
                   collections, requests, user_question, chapter, data, documents,
                   collection, search_result, outcome, http_response>>
    /\ UNCHANGED indexVars
    /\ UNCHANGED <<docVars, prev_ask, toolVars>>

\* ask, line 179: find_chapter(question).
FindChapter ==
    /\ pc = "find_chapter"
    /\ LET ranked == FindChapterResult(chapter_index, search_query)
       IN IF Len(ranked) = 0
              THEN /\ Finish(Catch("IndexError"))
                   /\ UNCHANGED chapter
          ELSE /\ chapter' = ranked[1]
               /\ pc' = "load_json"
               /\ UNCHANGED outcome
    /\ chapter_index' = ChapterIndexAfterFind(chapter_index, search_query)
    /\ UNCHANGED <<world, chatbot_instance, startup_error, chat_history,
                   collections, requests, user_question, search_query, data, documents,
                   collection, search_result, http_response>>
    /\ UNCHANGED indexVars
    /\ UNCHANGED <<docVars, prev_ask, rewrite_call, toolVars>>

\* load_and_search, lines 73-78.
LoadDocument ==
    /\ pc = "load_json"
    /\ LET r == LoadJson(FileAt(world, chapter.json_path))
       IN IF r.ok
              THEN /\ data' = r.data
                   /\ pc' = "create_documents"
                   /\ UNCHANGED outcome
          ELSE /\ Finish(Catch(r.error))
               /\ UNCHANGED data
    /\ UNCHANGED <<world, chatbot_instance, startup_error, chapter_index, chat_history,
                   collections, requests, user_question, search_query, chapter, documents,
                   collection, search_result, http_response>>
    /\ UNCHANGED indexVars
    /\ UNCHANGED <<docVars, prev_ask, rewrite_call, toolVars>>

\* load_and_search, lines 80-123.
CreateDocuments ==
    /\ pc = "create_documents"
    /\ LET r == SQCreateDocuments(data)
       IN IF r.ok
              THEN /\ documents' = r.docs
                   /\ pc' = "create_collection"
                   /\ UNCHANGED outcome
          ELSE /\ Finish(Catch(r.error))
               /\ UNCHANGED documents
    /\ UNCHANGED <<world, chatbot_instance, startup_error, chapter_index, chat_history,
                   collections, requests, user_question, search_query, chapter, data,
                   collection, search_result, http_response>>
    /\ UNCHANGED indexVars
    /\ UNCHANGED <<docVars, prev_ask, rewrite_call, toolVars>>

\* load_and_search, lines 125-137: create_collection under a random name, then
\* add.  An existing name and an empty add both raise.  names: the space the
\* random name is drawn from.
CreateVectorDBIn(names) ==
    /\ pc = "create_collection"
    /\ \E name \in names :
          IF name \in DOMAIN collections
              THEN /\ Finish(Catch("UniqueConstraintError"))
                   /\ UNCHANGED <<collections, collection>>
          ELSE IF Len(documents) = 0
              THEN /\ collections' = (name :> <<>>) @@ collections
                   /\ Finish(Catch("ValueError"))
                   /\ UNCHANGED collection
          ELSE /\ collections' = (name :> StoredEntries(documents)) @@ collections
               /\ collection' = name
               /\ pc' = "search"
               /\ UNCHANGED outcome
    /\ UNCHANGED <<world, chatbot_instance, startup_error, chapter_index, chat_history,
                   requests, user_question, search_query, chapter, data, documents,
                   search_result, http_response>>
    /\ UNCHANGED indexVars
    /\ UNCHANGED <<docVars, prev_ask, rewrite_call, toolVars>>

CreateVectorDB == CreateVectorDBIn(CollectionNames)

\* load_and_search, lines 139-161, and the rest of ask (lines 184-212).
Search ==
    /\ pc = "search"
    /\ LET results == QueryCollection(QueryScope(collections, collection),
                                      Encode(search_query), ChatNResults)
       IN search_result' = AskResult(chapter, search_query, ChunksOf(results))
    /\ pc' = "gate"
    /\ UNCHANGED <<world, chatbot_instance, startup_error, chapter_index, chat_history,
                   collections, requests, user_question, search_query, chapter, data,
                   documents, collection, outcome, http_response>>
    /\ UNCHANGED indexVars
    /\ UNCHANGED <<docVars, prev_ask, rewrite_call, toolVars>>

\* get_response, lines 101-113: the relevance gate.
Gate ==
    /\ pc = "gate"
    /\ IF BelowThreshold(search_result.chapter_relevance)
           THEN Finish([kind |-> "return",
                        value |-> RefusalPayload(search_result.chapter_relevance)])
       ELSE /\ pc' = "llm"
            /\ UNCHANGED outcome
    /\ UNCHANGED <<world, chatbot_instance, startup_error, chapter_index, chat_history,
                   collections, requests, user_question, search_query, chapter, data,
                   documents, collection, search_result, http_response>>
    /\ UNCHANGED indexVars
    /\ UNCHANGED <<docVars, prev_ask, rewrite_call, toolVars>>

\* get_response, lines 142-164: the answering LLM call succeeds.
AnswerLLM ==
    /\ pc = "llm"
    /\ \E response \in Answers :
          /\ chat_history' = HistoryAfterAnswer(chat_history, user_question, response)
          /\ Finish([kind |-> "return", value |-> SuccessPayload(response, search_result)])
    /\ UNCHANGED <<world, chatbot_instance, startup_error, chapter_index, collections,
                   requests, user_question, search_query, chapter, data, documents,
                   collection, search_result, http_response>>
    /\ UNCHANGED indexVars
    /\ UNCHANGED <<docVars, prev_ask, rewrite_call, toolVars>>

\* get_response, lines 143-151 and 166-167: the answering LLM call raises.
AnswerLLMFails ==
    /\ pc = "llm"
    /\ Finish(Catch("APIError"))
    /\ UNCHANGED <<world, chatbot_instance, startup_error, chapter_index, chat_history,
                   collections, requests, user_question, search_query, chapter, data,
                   documents, collection, search_result, http_response>>
    /\ UNCHANGED indexVars
    /\ UNCHANGED <<docVars, prev_ask, rewrite_call, toolVars>>

\* What a call of SmartQA.ask handed back: the chapter and the chunks, or
\* nothing when the call raised.
AskReturned(result) ==
    IF "chunks" \in DOMAIN result
        THEN [question |-> result.question, chapter |-> result.chapter,
              chapter_relevance |-> result.chapter_relevance, chunks |-> result.chunks]
    ELSE NoValue

\* chat_endpoint, lines 330-341: the handler answers the request.
ChatRespond ==
    /\ pc = "respond"
    /\ http_response' =
           IF outcome.kind = "raise"
               THEN [status |-> 500, body |-> NoValue]
           ELSE [status |-> 200, body |-> EndpointBody(outcome.value)]
    /\ pc' = "idle"
    /\ prev_ask' = AskReturned(search_result)
    /\ ClearLocals
    /\ UNCHANGED <<world, chatbot_instance, startup_error, chapter_index, chat_history,
                   collections, requests>>
    /\ UNCHANGED indexVars
    /\ UNCHANGED <<docVars, toolVars>>

IndexIdle ==
    /\ ix_data = <<>>
    /\ ix_done = {}
    /\ dq_documents = <<>>
    /\ sq_documents = <<>>

DocIdle ==
    /\ dq_clock = 0
    /\ dq_objects = <<>>
    /\ dq_error = ""
    /\ dq_query = NoValue
    /\ dq_results = NoValue
    /\ dq_contexts = <<>>
    /\ sq_result = NoValue

\* call_llm has not been called; the quiz history file is absent.
ToolIdle ==
    /\ max_retries = 0
    /\ attempt = 0
    /\ api_calls = <<>>
    /\ llm_outcome = CallIdle
    /\ history_file = FileMissing
    /\ quiz_calls = <<>>
    /\ quiz_record = NoValue

Init ==
    /\ world \in Worlds
    /\ pc = "boot"
    /\ chatbot_instance = "None"
    /\ startup_error = <<>>
    /\ chapter_index = <<>>
    /\ chat_history = <<>>
    /\ collections = <<>>
    /\ requests = 0
    /\ user_question = ""
    /\ search_query = ""
    /\ chapter = NoValue
    /\ data = NoFile
    /\ documents = <<>>
    /\ collection = ""
    /\ search_result = NoValue
    /\ outcome = NoOutcome
    /\ http_response = [status |-> 0, body |-> NoValue]
    /\ prev_ask = NoValue
    /\ rewrite_call = NoValue
    /\ IndexIdle
    /\ DocIdle
    /\ ToolIdle

Next ==
    \/ Startup
    \/ ChatOffline
    \/ ChatRequest
    \/ RewriteQuery
    \/ FindChapter
    \/ LoadDocument
    \/ CreateDocuments
    \/ CreateVectorDB
    \/ Search
    \/ Gate
    \/ AnswerLLM
    \/ AnswerLLMFails
    \/ ChatRespond

Spec == Init /\ [][Next]_vars

-----------------------------------------------------------------------------
(* The two indexers applied to the same parsed document *)

ObjectiveLists ==
    { [i \in 1..n |-> "lo" \o ToString(i)] : n \in 0..MaxObjectives }

BlockKinds ==
    { JDict([block_id |-> "B1", type |-> "definition", text |-> "text1"]),
      JDict([block_id |-> "B2", type |-> "example", text |-> " "]) }

BlockLists == UNION { [1..n -> BlockKinds] : n \in 0..MaxBlocks }

IndexerTopics ==
    { JDict([topic_id |-> "T1", topic_name |-> name, learning_objectives |-> los,
             allowed_concepts |-> allowed, disallowed_concepts |-> disallowed,
             content_blocks |-> blocks]) :
          name \in {"Fractions", ""}, los \in ObjectiveLists,
          allowed \in {<<>>, <<"c1">>}, disallowed \in {<<>>, <<"d1">>},
          blocks \in BlockLists }

IndexerInputs ==
    { <<t>> : t \in IndexerTopics \cup {TopicFractions, TopicDecimals, TopicLines} }
    \cup UNION { [1..n -> {TopicFractions, TopicDecimals, TopicLines}] : n \in 2..MaxTopics }

ChatIdle ==
    /\ world = [mapping |-> FileItems(MappingTwoPdfs), embedder_ok |-> TRUE,
                api_key |-> TRUE, files |-> GoodFiles]
    /\ pc = "boot"
    /\ chatbot_instance = "None"
    /\ startup_error = <<>>
    /\ chapter_index = <<>>
    /\ chat_history = <<>>
    /\ collections = <<>>
    /\ requests = 0
    /\ user_question = ""
    /\ search_query = ""
    /\ chapter = NoValue
    /\ data = NoFile
    /\ documents = <<>>
    /\ collection = ""
    /\ search_result = NoValue
    /\ outcome = NoOutcome
    /\ http_response = [status |-> 0, body |-> NoValue]
    /\ prev_ask = NoValue
    /\ rewrite_call = NoValue

InitIndex ==
    /\ ix_data \in IndexerInputs
    /\ ix_done = {}
    /\ dq_documents = <<>>
    /\ sq_documents = <<>>
    /\ ChatIdle
    /\ DocIdle
    /\ ToolIdle

\* DocumentQA.__init__, line 55: self.documents = self._create_documents()
DQIndex ==
    /\ "dq" \notin ix_done
    /\ dq_documents' = DQCreateDocuments(ix_data, "fA", "fA.json")
    /\ ix_done' = ix_done \cup {"dq"}
    /\ UNCHANGED <<ix_data, sq_documents>>
    /\ UNCHANGED <<chatVars, prev_ask, rewrite_call, toolVars>>
    /\ UNCHANGED docVars

\* SmartQA.load_and_search, lines 80-123, on the same data.
SQIndex ==
    /\ "sq" \notin ix_done
    /\ sq_documents' = SQCreateDocuments(FileArray(ix_data)).docs
    /\ ix_done' = ix_done \cup {"sq"}
    /\ UNCHANGED <<ix_data, dq_documents>>
    /\ UNCHANGED <<chatVars, prev_ask, rewrite_call, toolVars>>
    /\ UNCHANGED docVars

NextIndex ==
    \/ DQIndex
    \/ SQIndex

SpecIndex == InitIndex /\ [][NextIndex]_vars

-----------------------------------------------------------------------------
(* document_qa.py: DocumentQA construction, ask and format_for_llm *)

MaxClock == 1        \* milliseconds the clock advances during a run
MaxObjects == 2      \* DocumentQA instances constructed per run
MaxN == 2            \* largest n_results asked for
MaxFormats == 2      \* format_for_llm calls per result

\* The one-topic document of the end-to-end scenario.
TopicScenario ==
    JDict([topic_id |-> "T1", topic_name |-> "Fractions",
           learning_objectives |-> <<"Understand numerators">>,
           allowed_concepts |-> <<>>,
           disallowed_concepts |-> <<>>,
           content_blocks |-> <<
               JDict([block_id |-> "B1", type |-> "definition",
                      text |-> "A fraction represents a part of a whole."]) >>])

DocInputs == { <<TopicFractions, TopicDecimals>>, <<TopicScenario>> }

\* topic_filter arguments; "" stands for the falsy values None and "".
TopicFilters == {"", "fractions", "Decimals"}

\* str.lower() on the topic names and filters in play.
Lower(s) ==
    CASE s = "Fractions" -> "fractions"
      [] s = "Decimals" -> "decimals"
      [] s = "Lines" -> "lines"
      [] OTHER -> s

\* f"doc_{int(time.time() * 1000)}"
DocCollectionName(ms) == "doc_" \o ToString(ms)

\* DocumentQA.__init__ up to self.documents: the fields of the instance.
DocumentQAFields(topics, stem, pdf_name) ==
    [data |-> topics, unit_name |-> stem, json_name |-> stem \o ".json",
     pdf_name |-> pdf_name,
     documents |-> DQCreateDocuments(topics, stem, stem \o ".json")]

\* ask, lines 196-199: where_filter.
WhereFilter(topic_filter) ==
    IF topic_filter # "" THEN [topic_name |-> topic_filter] ELSE <<>>

\* The store's where clause: every key named must be present and equal.
WhereMatches(where, metadata) ==
    \A k \in DOMAIN where : k \in DOMAIN metadata /\ metadata[k] = where[k]

\* ask, line 204: n_results handed to the store.
CandidateCount(n_results, topic_filter) ==
    IF topic_filter # "" THEN n_results * 2 ELSE n_results

\* ask, lines 202-206: collection.query(query_embeddings, n_results, where).
DQQuery(entries, qv, n, where) ==
    QueryCollection(SelectSeq(entries, LAMBDA e : WhereMatches(where, e.metadata)), qv, n)

\* ask, line 227: the post-hoc topic check; TRUE when the candidate is skipped.
PostHocSkips(metadata, topic_filter) ==
    /\ topic_filter # ""
    /\ Lower(Get(metadata, "topic_name", "")) # Lower(topic_filter)

\* A loop that never stops at n_results.
LimitReachedNever(count, n_results) == FALSE

\* ask, lines 230-231.
LimitReached(count, n_results) == count >= n_results

\* A categoriser that files everything under content_blocks.
BucketOfContentOnly(doc_type) == "content_blocks"

\* ask, lines 244-253.
BucketOf(doc_type) ==
    CASE doc_type = "topic_overview" -> "topic_overview"
      [] doc_type = "learning_objective" -> "learning_objectives"
      [] doc_type = "allowed_concepts" -> "allowed_concepts"
      [] doc_type = "disallowed_concepts" -> "disallowed_concepts"
      [] OTHER -> "content_blocks"

\* ask, lines 209-217.
EmptyOrganized(question) ==
    [question |-> question, topic_overview |-> <<>>, learning_objectives |-> <<>>,
     allowed_concepts |-> <<>>, disallowed_concepts |-> <<>>, content_blocks |-> <<>>,
     all_results |-> <<>>]

\* ask, lines 236-241.
ResultItem(r) ==
    [text |-> r.document, metadata |-> r.metadata,
     relevance_score |-> 10000 - r.distance, distance |-> r.distance]

\* ask, lines 219-256: the loop over the candidates.
RECURSIVE Organize(_, _, _, _, _)
Organize(organized, candidates, count, n_results, topic_filter) ==
    IF Len(candidates) = 0 THEN organized
    ELSE IF PostHocSkips(candidates[1].metadata, topic_filter)
        THEN Organize(organized, Tail(candidates), count, n_results, topic_filter)
    ELSE IF LimitReached(count, n_results) THEN organized
    ELSE LET item == ResultItem(candidates[1])
             bucket == BucketOf(Get(candidates[1].metadata, "doc_type", ""))
         IN Organize([organized EXCEPT ![bucket] = Append(@, item),
                                       !.all_results = Append(@, item)],
                     Tail(candidates), count + 1, n_results, topic_filter)

\* DocumentQA.ask(question, n_results, topic_filter) on the entries of self.collection.
DQAskResult(entries, question, n_results, topic_filter) ==
    Organize(EmptyOrganized(question),
             DQQuery(entries, Encode(question),
                     CandidateCount(n_results, topic_filter), WhereFilter(topic_filter)),
             0, n_results, topic_filter)

Dash70 == "----------------------------------------------------------------------"

\* The pieces of an indexed text that hold the substring ": ".
ColonPieces ==
    {": ", "Topic: ", "Learning Objective: ", "Concepts: ",
     "Disallowed concepts (too advanced): "}

\* text.replace(piece, "")
Replace(text, piece) == SelectSeq(text, LAMBDA p : p # piece)

\* needle in text, for a needle that lies inside one of `pieces`
Contains(text, pieces) == \E i \in 1..Len(text) : text[i] \in pieces

\* text.split(": ", 1)[1]: what follows the first ": "
AfterFirstColon(text) ==
    LET i == CHOOSE k \in 1..Len(text) :
                 /\ text[k] \in ColonPieces
                 /\ \A j \in 1..(k - 1) : text[j] \notin ColonPieces
    IN SubSeq(text, i + 1, Len(text))

\* format_for_llm, lines 310-311 and 321-322.
ConceptsText(text, marker) ==
    IF Contains(text, {marker}) /\ Contains(text, ColonPieces)
        THEN AfterFirstColon(text)
    ELSE text

\* item["metadata"]["doc_type"].replace("content_", "")
SubType(doc_type) ==
    CASE doc_type = "content_definition" -> "definition"
      [] doc_type = "content_explanation" -> "explanation"
      [] doc_type = "content_example" -> "example"
      [] doc_type = "content_unknown" -> "unknown"
      [] doc_type = "content_text" -> "text"
      [] OTHER -> doc_type

\* format_for_llm, lines 338-345.
ContentLabel(sub_type) ==
    CASE sub_type = "definition" -> "DEFINITION"
      [] sub_type = "explanation" -> "EXPLANATION"
      [] sub_type = "example" -> "EXAMPLE"
      [] OTHER -> "CONTENT"

TopicHeader == "\nTOPIC(S) FROM THE TEXTBOOK:"
ObjectivesHeader == "\nLEARNING OBJECTIVES (What students should learn):"
AllowedHeader == "\nCONCEPTS COVERED IN THIS CHAPTER (Age-appropriate):"
DisallowedHeader == "\nADVANCED CONCEPTS (NOT to be taught at this level):"
ContentHeader == "\nRELEVANT CONTENT FROM THE TEXTBOOK:"
EndMarker == "END OF TEXTBOOK CONTEXT"

\* format_for_llm, lines 273-285.
HeaderLines(self, results) ==
    << <<Rule70>>, <<"CONTEXT FROM NCERT TEXTBOOK">>, <<Rule70>>,
       <<"\nSOURCE DOCUMENT: ",
         IF self.pdf_name # "" THEN self.pdf_name ELSE self.unit_name \o ".pdf">>,
       <<"UNIT/CHAPTER: ", self.unit_name>>,
       <<"\nNOTE: The following content has been extracted and structured from the">>,
       <<"      PDF textbook. It includes topics, learning objectives, concepts,">>,
       <<"      and actual content (definitions, explanations, examples) from the book.">>,
       <<"\n", Rule70>>,
       <<"\nSTUDENT QUESTION: ", results.question>>,
       <<Rule70>> >>

\* The bullet lines of one section: f"* {text}" per item, for the texts the
\* section prints.
BulletLines(texts) == [i \in 1..Len(texts) |-> <<"* ">> \o texts[i]]

\* format_for_llm, lines 332-347.
RECURSIVE ContentLines(_, _)
ContentLines(items, i) ==
    IF i > Len(items) THEN <<>>
    ELSE << <<"\n[", ContentLabel(SubType(items[i].metadata.doc_type)), " #", ToString(i),
              "] from topic '", Get(items[i].metadata, "topic_name", "Unknown"),
              "' (Relevance: ", Percent1(Round3(items[i].relevance_score)), ")">>,
            items[i].text >>
         \o ContentLines(items, i + 1)

\* A section that prints its header whether or not the bucket holds anything.
SectionAlways(items, header, lines) == << <<header>>, <<Dash70>> >> \o lines

\* One section of format_for_llm: nothing when the bucket is empty.
Section(items, header, lines) ==
    IF Len(items) = 0 THEN <<>> ELSE << <<header>>, <<Dash70>> >> \o lines

\* DocumentQA.format_for_llm(results): the lines joined by "\n".
FormatForLLM(self, results) ==
    HeaderLines(self, results)
    \o Section(results.topic_overview, TopicHeader,
               BulletLines([i \in 1..Len(results.topic_overview) |->
                               Replace(results.topic_overview[i].text, "Topic: ")]))
    \o Section(results.learning_objectives, ObjectivesHeader,
               BulletLines([i \in 1..Len(results.learning_objectives) |->
                               Replace(results.learning_objectives[i].text,
                                       "Learning Objective: ")]))
    \o Section(results.allowed_concepts, AllowedHeader,
               BulletLines([i \in 1..Len(results.allowed_concepts) |->
                               ConceptsText(results.allowed_concepts[i].text,
                                            "Allowed concepts for ")]))
    \o Section(results.disallowed_concepts, DisallowedHeader,
               BulletLines([i \in 1..Len(results.disallowed_concepts) |->
                               ConceptsText(results.disallowed_concepts[i].text,
                                            "Disallowed concepts (too advanced): ")]))
    \o Section(results.content_blocks, ContentHeader,
               << <<"(This is the actual text extracted from the PDF)">>, <<"">> >>
               \o ContentLines(results.content_blocks, 1))
    \o << <<"\n", Rule70>>, <<EndMarker>>, <<Rule70>> >>

\* A formatter that consumes the content bucket as it prints it.
ResultsAfterFormatDrained(results) == [results EXCEPT !.content_blocks = <<>>]

\* format_for_llm reads results[...] and the items' fields; it assigns to no
\* key and calls no mutating method: the dictionary after the call.
ResultsAfterFormat(results) == results

\* The pdf_path argument the document is opened with: the one-topic document
\* comes with its PDF, the others with None ("").
PdfPathOf(topics) == IF Len(topics) = 1 THEN "fA.pdf" ELSE ""

\* The millisecond clock moves on.
DQTick ==
    /\ dq_clock < MaxClock
    /\ dq_clock' = dq_clock + 1
    /\ UNCHANGED <<dq_objects, dq_error, dq_query, dq_results, dq_contexts, sq_result>>
    /\ UNCHANGED <<world, pc, chatbot_instance, startup_error, chapter_index, chat_history,
                   collections, requests, user_question, search_query, chapter, data,
                   documents, collection, search_result, outcome, http_response, prev_ask,
                   rewrite_call, toolVars>>
    /\ UNCHANGED indexVars

\* DocumentQA(json_path, pdf_path): __init__ (lines 26-59) with _create_documents
\* and _create_vector_db (lines 151-179).  An existing collection name and an
\* empty add both raise out of the constructor.
DQConstruct ==
    /\ Len(dq_objects) < MaxObjects
    /\ LET self == DocumentQAFields(ix_data, "fA", PdfPathOf(ix_data))
           collection_name == DocCollectionName(dq_clock)
       IN IF collection_name \in DOMAIN collections
              THEN /\ dq_error' = "UniqueConstraintError"
                   /\ UNCHANGED <<dq_objects, collections>>
          ELSE IF Len(self.documents) = 0
              THEN /\ collections' = (collection_name :> <<>>) @@ collections
                   /\ dq_error' = "ValueError"
                   /\ UNCHANGED dq_objects
          ELSE /\ collections' =
                      (collection_name :> StoredEntries(self.documents)) @@ collections
               /\ dq_objects' = Append(dq_objects, [collection |-> collection_name] @@ self)
               /\ dq_error' = ""
    /\ UNCHANGED <<dq_clock, dq_query, dq_results, dq_contexts, sq_result>>
    /\ UNCHANGED <<world, pc, chatbot_instance, startup_error, chapter_index, chat_history,
                   requests, user_question, search_query, chapter, data,
                   documents, collection, search_result, outcome, http_response, prev_ask,
                   rewrite_call, toolVars>>
    /\ UNCHANGED indexVars

\* interactive_qa, lines 368-389: the session reads a question, an optional
\* topic filter and a result count; the answers to the previous question are
\* dropped.
DocQuestion ==
    /\ Len(dq_objects) > 0
    /\ \E q \in DocQuestions, n \in 1..MaxN, f \in TopicFilters :
          dq_query' = [question |-> q, n_results |-> n, topic_filter |-> f,
                       candidates |-> CandidateCount(n, f)]
    /\ dq_results' = NoValue
    /\ dq_contexts' = <<>>
    /\ sq_result' = NoValue
    /\ UNCHANGED <<dq_clock, dq_objects, dq_error>>
    /\ UNCHANGED <<chatVars, prev_ask, rewrite_call, toolVars>>
    /\ UNCHANGED indexVars

\* qa.ask(question, n_results, topic_filter) on the instance the session holds,
\* the last one constructed (document_qa.py, lines 181-258).
DQAsk ==
    /\ "question" \in DOMAIN dq_query
    /\ "question" \notin DOMAIN dq_results
    /\ dq_results' = DQAskResult(collections[dq_objects[Len(dq_objects)].collection],
                                 dq_query.question, dq_query.n_results,
                                 dq_query.topic_filter)
    /\ UNCHANGED <<dq_clock, dq_objects, dq_error, dq_query, dq_contexts, sq_result>>
    /\ UNCHANGED <<chatVars, prev_ask, rewrite_call, toolVars>>
    /\ UNCHANGED indexVars

\* qa.format_for_llm(results) on the last result (lines 260-353).
DQFormat ==
    /\ "question" \in DOMAIN dq_results
    /\ Len(dq_contexts) < MaxFormats
    /\ dq_contexts' = Append(dq_contexts,
                             FormatForLLM(dq_objects[Len(dq_objects)], dq_results))
    /\ dq_results' = ResultsAfterFormat(dq_results)
    /\ UNCHANGED <<dq_clock, dq_objects, dq_error, dq_query, sq_result>>
    /\ UNCHANGED <<chatVars, prev_ask, rewrite_call, toolVars>>
    /\ UNCHANGED indexVars

\* The chapter mapping that names the document under its first topic.
DocMapping(topics) ==
    << [pdf |-> "fA.pdf", chapters |-> <<Get(topics[1].fields, "topic_name", "")>>,
        json_file |-> "fA.json"] >>

\* SmartQA.ask(question, n_results) with the same question, over DocMapping and
\* the same document (qa.py, lines 163-212, with find_chapter and
\* load_and_search).
SQAsk ==
    /\ "question" \in DOMAIN dq_query
    /\ "collection" \notin DOMAIN sq_result
    /\ \E name \in CollectionNames :
          LET q == dq_query.question
              ranked == FindChapterResult(BuildChapterIndex(DocMapping(ix_data)), q)
              built == SQCreateDocuments(FileArray(ix_data))
              store == (name :> StoredEntries(built.docs)) @@ collections
          IN IF name \in DOMAIN collections
                 THEN /\ sq_result' = [collection |-> "", error |-> "UniqueConstraintError"]
                      /\ UNCHANGED collections
             ELSE /\ collections' = store
                  /\ sq_result' =
                         [collection |-> name,
                          returned |-> AskResult(ranked[1], q,
                                          ChunksOf(QueryCollection(QueryScope(store, name),
                                                       Encode(q), dq_query.n_results)))]
    /\ UNCHANGED <<dq_clock, dq_objects, dq_error, dq_query, dq_results, dq_contexts>>
    /\ UNCHANGED <<world, pc, chatbot_instance, startup_error, chapter_index, chat_history,
                   requests, user_question, search_query, chapter, data,
                   documents, collection, search_result, outcome, http_response, prev_ask,
                   rewrite_call, toolVars>>
    /\ UNCHANGED indexVars

InitDoc ==
    /\ ix_data \in DocInputs
    /\ ix_done = {}
    /\ dq_documents = <<>>
    /\ sq_documents = <<>>
    /\ ChatIdle
    /\ DocIdle
    /\ ToolIdle

NextDoc ==
    \/ DQTick
    \/ DQConstruct
    \/ DocQuestion
    \/ DQAsk
    \/ DQFormat
    \/ SQAsk

SpecDoc == InitDoc /\ [][NextDoc]_vars

-----------------------------------------------------------------------------
(* chatbot_rag.py: a conversation of several turns with one chatbot *)

MaxTurns == 4        \* /chat requests of the conversation
ChatNames == 3       \* size of the space the random collection name is drawn from

ChatCollectionNames == { CollectionName(n) : n \in 0..(ChatNames - 1) }

ChatTurn == ChatRequestFrom(MaxTurns, ChatQuestions)

CreateIndex == CreateVectorDBIn(ChatCollectionNames)

InitChat ==
    /\ ChatIdle
    /\ IndexIdle
    /\ DocIdle
    /\ ToolIdle

NextChat ==
    \/ Startup
    \/ ChatTurn
    \/ RewriteQuery
    \/ FindChapter
    \/ LoadDocument
    \/ CreateDocuments
    \/ CreateIndex
    \/ Search
    \/ Gate
    \/ AnswerLLM
    \/ AnswerLLMFails
    \/ ChatRespond

SpecChat == InitChat /\ [][NextChat]_vars

-----------------------------------------------------------------------------
(* extract_pipeline.py: call_llm *)

MaxRetries == 4      \* largest max_retries call_llm is called with

ApiErrors == {"RateLimitError", "APIConnectionError", "APITimeoutError"}

ApiContents == {"{\"topic_name\": \"Fractions\"}", "not json"}

\* A retry test that never lets the exception out.
RetryAgainAlways(a, k) == a < k

\* call_llm, line 334: if attempt < max_retries - 1: continue
RetryAgain(a, k) == a < k - 1

\* call_llm(prompt, schema, max_retries) is entered; range(max_retries) starts.
CallLLM ==
    /\ llm_outcome = CallIdle
    /\ \E k \in 0..MaxRetries : max_retries' = k
    /\ attempt' = 0
    /\ llm_outcome' = CallRunning
    /\ UNCHANGED <<api_calls, quizVars, rewrite_call, prev_ask>>
    /\ UNCHANGED <<chatVars, indexVars, docVars>>

\* One iteration of the loop whose API call returns (lines 314-332).
AttemptSucceeds ==
    /\ llm_outcome = CallRunning
    /\ attempt < max_retries
    /\ \E content \in ApiContents :
          /\ api_calls' = Append(api_calls, [ok |-> TRUE, value |-> content])
          /\ llm_outcome' = [kind |-> "return", value |-> content]
    /\ UNCHANGED <<max_retries, attempt, quizVars, rewrite_call, prev_ask>>
    /\ UNCHANGED <<chatVars, indexVars, docVars>>

\* One iteration of the loop whose API call raises (lines 333-338).
AttemptFails ==
    /\ llm_outcome = CallRunning
    /\ attempt < max_retries
    /\ \E e \in ApiErrors :
          /\ api_calls' = Append(api_calls, [ok |-> FALSE, value |-> e])
          /\ IF RetryAgain(attempt, max_retries)
                 THEN /\ attempt' = attempt + 1
                      /\ UNCHANGED llm_outcome
             ELSE /\ llm_outcome' = [kind |-> "raise", value |-> e]
                  /\ UNCHANGED attempt
    /\ UNCHANGED <<max_retries, quizVars, rewrite_call, prev_ask>>
    /\ UNCHANGED <<chatVars, indexVars, docVars>>

\* range(max_retries) is exhausted: the function falls off its end and
\* returns None.
LoopExhausted ==
    /\ llm_outcome = CallRunning
    /\ attempt >= max_retries
    /\ llm_outcome' = [kind |-> "return", value |-> "None"]
    /\ UNCHANGED <<max_retries, attempt, api_calls, quizVars, rewrite_call, prev_ask>>
    /\ UNCHANGED <<chatVars, indexVars, docVars>>

InitRetry ==
    /\ ChatIdle
    /\ IndexIdle
    /\ DocIdle
    /\ ToolIdle

NextRetry ==
    \/ CallLLM
    \/ AttemptSucceeds
    \/ AttemptFails
    \/ LoopExhausted

\* A call that has been entered keeps running: every API call returns or
\* raises, and the loop goes on to its next step.
SpecRetry ==
    InitRetry /\ [][NextRetry]_vars
        /\ WF_vars(AttemptSucceeds \/ AttemptFails \/ LoopExhausted)

-----------------------------------------------------------------------------
(* backend/analytics_engine.py: the quiz history *)

MaxSaves == 4        \* save_quiz_result calls per run

FileEmpty == [kind |-> "badjson", value |-> <<>>]

\* How the history file is found: absent, of zero bytes, or holding [].
HistoryFiles == { FileMissing, FileEmpty, FileArray(<<>>) }

QuizResults ==
    { [topic |-> "Fractions", score |-> 3, total_questions |-> 5,
       date |-> "2025-01-01", weak_subtopics |-> <<>>],
      [topic |-> "Fractions", score |-> 5, total_questions |-> 5,
       date |-> "2025-01-02", weak_subtopics |-> <<>>],
      [topic |-> "Lines", score |-> 1, total_questions |-> 4,
       date |-> "2025-01-02", weak_subtopics |-> <<"parallel">>] }

\* _load_history (lines 19-26): [] when the file is absent or cannot be parsed.
LoadHistory(file) == IF file.kind = "list" THEN file.value ELSE <<>>

\* An id that counts from zero.
RecordIdFromZero(history) == Len(history)

\* save_quiz_result, line 38: record['id'] = len(history) + 1
RecordId(history) == Len(history) + 1

\* save_quiz_result (lines 33-41) with _load_history and _save_history.
SaveQuizResult ==
    /\ Len(quiz_calls) < MaxSaves
    /\ \E result \in QuizResults :
          LET history == LoadHistory(history_file)
              record == [id |-> RecordId(history)] @@ result
          IN /\ history_file' = FileArray(Append(history, record))
             /\ quiz_record' = record
             /\ quiz_calls' = Append(quiz_calls, result)
    /\ UNCHANGED <<retryVars, rewrite_call, prev_ask>>
    /\ UNCHANGED <<chatVars, indexVars, docVars>>

InitQuiz ==
    /\ ChatIdle
    /\ IndexIdle
    /\ DocIdle
    /\ max_retries = 0
    /\ attempt = 0
    /\ api_calls = <<>>
    /\ llm_outcome = CallIdle
    /\ history_file \in HistoryFiles
    /\ quiz_calls = <<>>
    /\ quiz_record = NoValue

NextQuiz == SaveQuizResult

SpecQuiz == InitQuiz /\ [][NextQuiz]_vars

-----------------------------------------------------------------------------
(* Properties *)

ChatKeys == {"answer", "chapter", "relevance", "sources"}

QuerySteps == {"rewrite", "find_chapter", "load_json", "create_documents",
               "create_collection", "search", "gate", "llm", "respond"}

\* The steps of load_and_search and what follows it inside ask.
RetrievalSteps == {"load_json", "create_documents", "create_collection", "search"}

Routed == "chapter_name" \in DOMAIN chapter

ChapterRelevance == Round3(chapter.similarity)

\* C1: get_response refuses exactly when the chapter relevance is below 0.45:
\* a call that has ended for a question routed with relevance < 0.45 returned
\* the refusal payload (chapter "None", the relevance, no sources), and a call
\* that ended with relevance >= 0.45 did not return it.
C1_RefusesExactlyBelowThreshold ==
    (pc = "respond" /\ Routed) =>
        (BelowThreshold(ChapterRelevance)
            <=> outcome.value = RefusalPayload(ChapterRelevance))

\* C2: for a question whose chapter relevance is below 0.45, no step of
\* load_and_search (document load, re-indexing, nearest-neighbour search) is
\* ever taken once the router has produced its score.
C2_NoRetrievalBelowThreshold ==
    (Routed /\ BelowThreshold(ChapterRelevance)) =>
        /\ pc \notin RetrievalSteps \ {"load_json"}
        /\ collection = ""
        /\ "chunks" \notin DOMAIN search_result

\* C3: find_chapter returns the chapter-index entry of maximum similarity to
\* the question, the first such entry in index order on a tie, carrying the
\* entry's name, document path and the similarity score.
C3_FindChapterFirstMaximum ==
    Routed =>
        \E i \in 1..Len(chapter_index) :
            /\ chapter.chapter_name = chapter_index[i].chapter_name
            /\ chapter.json_path = chapter_index[i].json_path
            /\ chapter.similarity = SimTable[search_query][chapter_index[i].chapter_name]
            /\ \A j \in 1..Len(chapter_index) :
                   SimTable[search_query][chapter_index[j].chapter_name] <= chapter.similarity
            /\ \A j \in 1..(i - 1) :
                   SimTable[search_query][chapter_index[j].chapter_name] < chapter.similarity

\* C3 witness: a question tied between two chapters was routed to the earlier.
C3_Witness ==
    /\ Routed
    /\ chapter.chapter_name = "Decimals"
    /\ \E j \in 1..Len(chapter_index) :
           /\ chapter_index[j].chapter_name = "Lines"
           /\ SimTable[search_query]["Lines"] = chapter.similarity

\* The decomposition of a document the claim describes: per topic an overview,
\* the objectives in order, the allowed-concepts chunk if any concept is
\* allowed, the disallowed-concepts chunk if any is disallowed (when
\* withDisallowed), and the non-blank content blocks in order.
RECURSIVE ExpectedObjectives(_)
ExpectedObjectives(los) ==
    IF Len(los) = 0 THEN <<>>
    ELSE <<[class |-> "objective", key |-> los[1]]>> \o ExpectedObjectives(Tail(los))

RECURSIVE ExpectedBlocks(_)
ExpectedBlocks(blocks) ==
    IF Len(blocks) = 0 THEN <<>>
    ELSE (IF blocks[1].fields.text \in BlankStrings THEN <<>>
          ELSE <<[class |-> "content", key |-> blocks[1].fields.text]>>)
         \o ExpectedBlocks(Tail(blocks))

ExpectedTopic(t, withDisallowed) ==
    <<[class |-> "overview", key |-> t.topic_name]>>
    \o ExpectedObjectives(t.learning_objectives)
    \o (IF t.allowed_concepts # <<>> THEN <<[class |-> "allowed", key |-> t.topic_name]>> ELSE <<>>)
    \o (IF withDisallowed /\ t.disallowed_concepts # <<>>
            THEN <<[class |-> "disallowed", key |-> t.topic_name]>> ELSE <<>>)
    \o ExpectedBlocks(t.content_blocks)

RECURSIVE ExpectedDocument(_, _)
ExpectedDocument(topics, withDisallowed) ==
    IF Len(topics) = 0 THEN <<>>
    ELSE ExpectedTopic(topics[1].fields, withDisallowed)
         \o ExpectedDocument(Tail(topics), withDisallowed)

ChunkClass(doc) ==
    LET t == doc.metadata.doc_type
    IN CASE t \in {"topic_overview", "topic"} -> [class |-> "overview", key |-> doc.text[2]]
         [] t \in {"learning_objective", "objective"} -> [class |-> "objective", key |-> doc.text[2]]
         [] t \in {"allowed_concepts", "concepts"} -> [class |-> "allowed", key |-> doc.metadata.topic_name]
         [] t = "disallowed_concepts" -> [class |-> "disallowed", key |-> doc.metadata.topic_name]
         [] OTHER -> [class |-> "content", key |-> doc.text[1]]

Shape(docs) == [i \in 1..Len(docs) |-> ChunkClass(docs[i])]

\* C4 as claimed: each indexer (DocumentQA._create_documents and
\* SmartQA.load_and_search) emits, topic by topic, overview, objectives,
\* allowed-concepts chunk iff non-empty, disallowed-concepts chunk iff
\* non-empty, non-blank content blocks.
C4_BothIndexersEmitDisallowed ==
    /\ "dq" \in ix_done => Shape(dq_documents) = ExpectedDocument(ix_data, TRUE)
    /\ "sq" \in ix_done => Shape(sq_documents) = ExpectedDocument(ix_data, TRUE)

\* C4 amended: DocumentQA._create_documents emits the five kinds in the
\* claimed order and count; SmartQA.load_and_search emits the same sequence
\* without any disallowed-concepts chunk.
C4_IndexerDecomposition ==
    /\ "dq" \in ix_done => Shape(dq_documents) = ExpectedDocument(ix_data, TRUE)
    /\ "sq" \in ix_done => Shape(sq_documents) = ExpectedDocument(ix_data, FALSE)

\* C4 witness: the 7-chunk topic (2 objectives, 3 allowed, 0 disallowed, 4
\* blocks of which 1 blank) followed by a topic with a disallowed concept.
C4_Witness ==
    /\ ix_done = {"dq", "sq"}
    /\ ix_data = <<TopicFractions, TopicDecimals>>
    /\ Len(dq_documents) = 7 + 4
    /\ Len(sq_documents) = 7 + 3

TopicFields == {"topic_id", "topic_name", "learning_objectives", "allowed_concepts",
                "disallowed_concepts", "content_blocks"}

\* The file parses as a Topic object or an array of Topic objects.
ValidTopicDocument(file) ==
    /\ file.kind \in {"dict", "list"}
    /\ \A i \in 1..Len(file.value) :
           /\ file.value[i].kind = "dict"
           /\ TopicFields \subseteq DOMAIN file.value[i].fields

\* C5: a query whose chapter document is not valid structured topics never
\* reaches the index build or the search.
C5_InvalidDocumentNeverIndexed ==
    (Routed /\ (collection # "" \/ "chunks" \in DOMAIN search_result))
        => ValidTopicDocument(FileAt(world, chapter.json_path))

\* C6: get_response never lets an exception out: every failure of a step is
\* returned as {'error': ...}, and /chat answers every request with status 200
\* and a body with exactly answer, chapter, relevance and sources.
C6_FailuresBecomeErrorResponses ==
    /\ outcome.kind # "raise"
    /\ pc = "respond" =>
           \/ DOMAIN outcome.value = {"error"}
           \/ DOMAIN outcome.value = ChatKeys
    /\ (chatbot_instance = "ready" /\ pc = "idle" /\ requests > 0) =>
           /\ http_response.status = 200
           /\ DOMAIN http_response.body = ChatKeys

\* C6 witness: a request whose document load failed was answered by /chat
\* with the "System Error" chat message.
C6_Witness ==
    /\ pc = "idle"
    /\ http_response.status = 200
    /\ "sources" \in DOMAIN http_response.body
    /\ http_response.body.chapter = "System Error"
    /\ http_response.body.answer = <<"Chatbot Error: ", "JSONDecodeError">>

\* The chapter mapping is missing, unparseable or not of the mapping's shape,
\* or the embedding model does not load.
BrokenStartup(w) ==
    \/ w.mapping.kind \in {"missing", "badjson", "list"}
    \/ \E i \in 1..Len(w.mapping.value) : "chapters" \notin DOMAIN w.mapping.value[i]
    \/ ~w.embedder_ok

\* C7: with a missing or malformed chapter mapping (or an embedding model that
\* fails to load) construction fails, the failure reaches main.py, no chapter
\* index exists, and no request ever enters the query pipeline: each is
\* answered as offline.
C7_StartupFailureIsFatal ==
    BrokenStartup(world) =>
        /\ pc \in {"boot", "idle"}
        /\ chatbot_instance = "None"
        /\ chapter_index = <<>>
        /\ pc = "idle" =>
               /\ Len(startup_error) = 2
               /\ startup_error[1] = "Error initializing SmartQA: "
        /\ requests > 0 => http_response = [status |-> 200, body |-> OfflineBody]

\* C7 witness: the mapping file is missing and a /chat request was answered.
C7_Witness ==
    /\ world.mapping.kind = "missing"
    /\ startup_error = <<"Error initializing SmartQA: ", "FileNotFoundError">>
    /\ requests > 0
    /\ http_response.body = OfflineBody

Answered == pc = "respond" /\ "answer" \in DOMAIN outcome.value

\* C8: the refusal and the success payload of get_response have exactly the
\* keys answer, chapter, relevance and sources, and relevance is the numeric
\* chapter relevance in both.
C8_RefusalHasAnswerShape ==
    Answered =>
        /\ DOMAIN outcome.value = ChatKeys
        /\ outcome.value.relevance = ChapterRelevance
        /\ outcome.value.relevance = search_result.chapter_relevance

\* C8 witness: a refusal returned by a chatbot that has answered before.
C8_Witness ==
    /\ Answered
    /\ chat_history # <<>>
    /\ outcome.value.chapter = "None"
    /\ outcome.value.relevance = 440

ContentTypes == {"content_definition", "content_explanation", "content_example",
                 "content_text"}

Succeeded == Answered /\ outcome.value.chapter # "None"

\* Relevance of a stored entry to the current search query, as load_and_search
\* reports it.
EntryRelevance(e) == Round3(10000 - Distance(Encode(search_query), e.embedding))

SourceTexts == { outcome.value.sources[k].text : k \in 1..Len(outcome.value.sources) }

\* C9 as claimed, for an answer drawn from a valid chapter document: at most
\* 3 sources, each of a content_* doc type, and no content chunk left out is
\* more relevant than a source.
C9_SourcesAreContentChunks ==
    (Succeeded /\ ValidTopicDocument(FileAt(world, chapter.json_path))) =>
        LET sources == outcome.value.sources
        IN /\ Len(sources) <= 3
           /\ \A k \in 1..Len(sources) : sources[k].type \in ContentTypes
           /\ \A i \in 1..Len(collections[collection]) :
                  LET e == collections[collection][i]
                  IN (e.metadata.doc_type \in ContentTypes /\ e.document \notin SourceTexts)
                         => \A k \in 1..Len(sources) : EntryRelevance(e) <= sources[k].relevance

\* C9 amended: the sources are the first min(3, index size) chunks the search
\* returned, of any doc type, in non-increasing relevance, and no chunk of the
\* query's index left out is more relevant than a source.
C9_SourcesAreTopChunks ==
    Succeeded =>
        LET sources == outcome.value.sources
            entries == collections[collection]
        IN /\ Len(sources) = Min(3, Len(entries))
           /\ sources = SubSeq(search_result.chunks, 1, Len(sources))
           /\ \A k \in 1..(Len(sources) - 1) : sources[k].relevance >= sources[k + 1].relevance
           /\ \A i \in 1..Len(entries) :
                  entries[i].document \notin SourceTexts
                      => \A k \in 1..Len(sources) :
                             EntryRelevance(entries[i]) <= sources[k].relevance

\* C9 witness: an answer with three sources, one of them not a content chunk,
\* from an index that holds more than three chunks.
C9_Witness ==
    /\ Succeeded
    /\ Len(outcome.value.sources) = 3
    /\ Len(collections[collection]) > 3
    /\ \E k \in 1..3 : outcome.value.sources[k].type \notin ContentTypes
    /\ \E i \in 1..Len(collections[collection]) :
           collections[collection][i].document \notin SourceTexts

Range(f) == { f[i] : i \in DOMAIN f }

TopicStrings(t) ==
    {Get(t, "topic_name", "")}
    \cup Range(Get(t, "learning_objectives", <<>>))
    \cup Range(Get(t, "allowed_concepts", <<>>))
    \cup { Get(b.fields, "text", "") : b \in Range(Get(t, "content_blocks", <<>>)) }

\* Every string the document at a path holds.
OriginStrings(file) ==
    UNION { TopicStrings(file.value[i].fields) : i \in 1..Len(file.value) }

TopicNames(file) ==
    { Get(file.value[i].fields, "topic_name", "") : i \in 1..Len(file.value) }

FormatPieces == {"Topic: ", "Learning Objective: ", "Concepts: ", ", "}

\* C10: every chunk ask returns was built from the document at the json_path
\* of the chapter selected for the same query, whatever was indexed before.
C10_NoCrossChapterLeakage ==
    (pc \in {"gate", "llm", "respond"} /\ "chunks" \in DOMAIN search_result) =>
        LET file == FileAt(world, chapter.json_path)
        IN \A k \in 1..Len(search_result.chunks) :
               /\ search_result.chunks[k].topic \in TopicNames(file)
               /\ \A i \in 1..Len(search_result.chunks[k].text) :
                      search_result.chunks[k].text[i] \in FormatPieces \cup OriginStrings(file)

\* C10 witness: a query routed to fA.json returned chunks while the index an
\* earlier query built from fB.json is still in the store.
C10_Witness ==
    /\ pc = "gate"
    /\ search_result.chapter_file = "fA.json"
    /\ Len(search_result.chunks) > 0
    /\ \E name \in DOMAIN collections :
           /\ name # collection
           /\ Len(collections[name]) > 0
           /\ collections[name][1].metadata.topic_name = "Lines"


-----------------------------------------------------------------------------
(* Properties of the per-document engines (SpecDoc) *)

CollisionError == "UniqueConstraintError"

\* C11: every index is created under a name unique among all indexes the
\* process has built: no DocumentQA construction and no SmartQA query ever
\* finds its collection name already taken by another index.
C11_IndexNamesNeverCollide ==
    /\ dq_error # CollisionError
    /\ "error" \in DOMAIN sq_result => sq_result.error # CollisionError

\* The session's DocumentQA instance and the chunks its collection holds.
Qa == dq_objects[Len(dq_objects)]

QaEntries == collections[Qa.collection]

Asked == "question" \in DOMAIN dq_results

Filtered == Asked /\ dq_query.topic_filter # ""

\* The entries of the index whose topic_name is the filter string.
EntriesOfTopic(entries, topic) ==
    SelectSeq(entries, LAMBDA e : Get(e.metadata, "topic_name", "") = topic)

\* C12: with a topic filter and result count n, ask requests 2n candidates,
\* returns at most n results, every one of the filtered topic, and returns n
\* whenever the index holds at least n chunks of that topic.
C12_FilterDoesNotStarve ==
    Filtered =>
        LET n == dq_query.n_results
            returned == dq_results.all_results
        IN /\ dq_query.candidates = 2 * n
           /\ Len(returned) <= n
           /\ \A k \in 1..Len(returned) :
                  returned[k].metadata.topic_name = dq_query.topic_filter
           /\ Len(EntriesOfTopic(QaEntries, dq_query.topic_filter)) >= n
                  => Len(returned) = n

\* C12 witness: a filtered query returned n = 2 chunks of its topic although a
\* chunk of another topic is nearer to the question than both.
C12_Witness ==
    /\ Filtered
    /\ dq_query.n_results = 2
    /\ Len(dq_results.all_results) = 2
    /\ Len(EntriesOfTopic(QaEntries, dq_query.topic_filter)) > 2
    /\ \E i \in 1..Len(QaEntries) :
           /\ QaEntries[i].metadata.topic_name # dq_query.topic_filter
           /\ Distance(Encode(dq_query.question), QaEntries[i].embedding)
                  < dq_results.all_results[1].distance

\* C13: the index-side topic filter and the post-hoc topic check agree, for
\* every filter string and every chunk of the index, on whether the chunk's
\* topic_name matches the filter.
C13_FilterStagesAgree ==
    Filtered =>
        \A i \in 1..Len(QaEntries) :
            WhereMatches(WhereFilter(dq_query.topic_filter), QaEntries[i].metadata)
                <=> ~PostHocSkips(QaEntries[i].metadata, dq_query.topic_filter)

BucketNames == {"topic_overview", "learning_objectives", "allowed_concepts",
                "disallowed_concepts", "content_blocks"}

\* The bucket the claim assigns to a doc_type.
BucketClaimed(doc_type) ==
    IF doc_type = "topic_overview" THEN "topic_overview"
    ELSE IF doc_type = "learning_objective" THEN "learning_objectives"
    ELSE IF doc_type \in {"allowed_concepts", "disallowed_concepts"} THEN doc_type
    ELSE "content_blocks"

\* C14: every returned result is in exactly one of the five buckets, the one
\* of its stored doc_type, and in all_results; all_results is in relevance
\* order and as long as the buckets together; each bucket keeps the relevance
\* order; the result echoes the question.
C14_BucketsPartitionResults ==
    Asked =>
        LET returned == dq_results.all_results
        IN /\ dq_results.question = dq_query.question
           /\ DOMAIN dq_results = BucketNames \cup {"question", "all_results"}
           /\ \A k \in 1..(Len(returned) - 1) :
                  returned[k].relevance_score >= returned[k + 1].relevance_score
           /\ \A b \in BucketNames :
                  dq_results[b] =
                      SelectSeq(returned,
                                LAMBDA it : BucketClaimed(it.metadata.doc_type) = b)
           /\ Len(returned) =
                  Len(dq_results.topic_overview) + Len(dq_results.learning_objectives)
                  + Len(dq_results.allowed_concepts) + Len(dq_results.disallowed_concepts)
                  + Len(dq_results.content_blocks)

\* C14 witness: two results of different relevance, one a content block and
\* one not.
C14_Witness ==
    /\ Asked
    /\ Len(dq_results.all_results) = 2
    /\ Len(dq_results.content_blocks) = 1
    /\ dq_results.all_results[1].relevance_score
           > dq_results.all_results[2].relevance_score

Formatted == Asked /\ Len(dq_contexts) > 0

SQReturned == "returned" \in DOMAIN sq_result

\* The lines of a context that are exactly `line`.
Positions(context, line) == { i \in 1..Len(context) : context[i] = line }

\* The sections of format_for_llm in the claimed order: bucket and header.
SectionOrder ==
    << [bucket |-> "topic_overview", header |-> TopicHeader],
       [bucket |-> "learning_objectives", header |-> ObjectivesHeader],
       [bucket |-> "allowed_concepts", header |-> AllowedHeader],
       [bucket |-> "disallowed_concepts", header |-> DisallowedHeader],
       [bucket |-> "content_blocks", header |-> ContentHeader] >>

\* The label the claim gives a content block of a doc_type.
LabelClaimed(doc_type) ==
    IF doc_type = "content_definition" THEN "DEFINITION"
    ELSE IF doc_type = "content_explanation" THEN "EXPLANATION"
    ELSE IF doc_type = "content_example" THEN "EXAMPLE"
    ELSE "CONTENT"

\* The DocumentQA formatter as claimed: document header first, end marker
\* last, each section header present iff its bucket is non-empty, the headers
\* in the fixed order, every content block under its sub-type label with its
\* number, topic and relevance percentage and followed by its text.
DQContextSectioned(context, results) ==
    /\ context[1] = <<Rule70>>
    /\ context[2] = <<"CONTEXT FROM NCERT TEXTBOOK">>
    /\ context[10] = <<"\nSTUDENT QUESTION: ", results.question>>
    /\ SubSeq(context, Len(context) - 2, Len(context))
           = << <<"\n", Rule70>>, <<EndMarker>>, <<Rule70>> >>
    /\ \A s \in 1..Len(SectionOrder) :
           LET at == Positions(context, <<SectionOrder[s].header>>)
           IN /\ Cardinality(at) = IF Len(results[SectionOrder[s].bucket]) > 0 THEN 1 ELSE 0
              /\ \A i \in at : i > 11 /\ i < Len(context) - 2
              /\ \A t \in (s + 1)..Len(SectionOrder) :
                     \A i \in at, j \in Positions(context, <<SectionOrder[t].header>>) : i < j
    /\ \A b \in 1..Len(results.content_blocks) :
           LET item == results.content_blocks[b]
               label == <<"\n[", LabelClaimed(item.metadata.doc_type), " #", ToString(b),
                          "] from topic '", item.metadata.topic_name, "' (Relevance: ",
                          Percent1(Round3(item.relevance_score)), ")">>
           IN \E k \in Positions(context, label) :
                  /\ context[k + 1] = item.text
                  /\ \A h \in Positions(context, <<ContentHeader>>) : h < k

\* The label SmartQA.ask gives a chunk: its doc type without content_, in
\* upper case.
SQLabelClaimed(type) ==
    IF type = "topic" THEN "TOPIC"
    ELSE IF type = "objective" THEN "OBJECTIVE"
    ELSE IF type = "concepts" THEN "CONCEPTS"
    ELSE IF type = "content_text" THEN "TEXT"
    ELSE LabelClaimed(type)

\* The SmartQA context: header, then the chunks one after another in the
\* order returned, each under [TYPE #i] with its relevance percentage and
\* followed by its text, then the end marker; no section headers.
SQContextFlat(context, chunks) ==
    /\ context[1] = <<Rule70>>
    /\ context[2] = <<"CONTEXT FROM NCERT CLASS 7 MATHEMATICS">>
    /\ Len(context) = 8 + 2 * Len(chunks) + 3
    /\ SubSeq(context, Len(context) - 2, Len(context))
           = << <<"\n", Rule70>>, <<"END OF CONTEXT">>, <<Rule70>> >>
    /\ \A i \in 1..Len(chunks) :
           /\ context[8 + 2 * i - 1] =
                  <<"\n[", SQLabelClaimed(chunks[i].type), " #", ToString(i),
                    "] (Relevance: ", Percent1(chunks[i].relevance), ")">>
           /\ context[8 + 2 * i] = chunks[i].text

\* Place of a doc type in the claimed section order.
SectionRank(type) ==
    IF type \in {"topic", "topic_overview"} THEN 1
    ELSE IF type \in {"objective", "learning_objective"} THEN 2
    ELSE IF type \in {"concepts", "allowed_concepts"} THEN 3
    ELSE IF type = "disallowed_concepts" THEN 4
    ELSE 5

\* C15 as claimed, for both formatters: the DocumentQA context is sectioned
\* as above, and the SmartQA context too lists its chunks section by section
\* in the fixed order (overview, objectives, concepts, content blocks).
C15_BothFormattersSectioned ==
    /\ Formatted => \A c \in 1..Len(dq_contexts) : DQContextSectioned(dq_contexts[c], dq_results)
    /\ SQReturned =>
           \A i \in 1..Len(sq_result.returned.chunks) :
               \A j \in (i + 1)..Len(sq_result.returned.chunks) :
                   SectionRank(sq_result.returned.chunks[i].type)
                       <= SectionRank(sq_result.returned.chunks[j].type)

\* C15 amended: DocumentQA.format_for_llm emits header, topic overview,
\* learning objectives, allowed concepts, disallowed concepts, content blocks
\* and end marker in that order, a section header iff its bucket is non-empty,
\* each content block under [DEFINITION #i], [EXPLANATION #i], [EXAMPLE #i]
\* (or [CONTENT #i] for any other sub-type) with its relevance percentage and
\* followed by its text; SmartQA.ask emits no sections: header, the chunks in
\* relevance order each under [TYPE #i] with its relevance percentage and
\* followed by its text, end marker.
C15_FormatterLayout ==
    /\ Formatted => \A c \in 1..Len(dq_contexts) : DQContextSectioned(dq_contexts[c], dq_results)
    /\ SQReturned => SQContextFlat(sq_result.returned.context, sq_result.returned.chunks)

\* C15 witness: a DocumentQA context with a content section and another
\* section, and a SmartQA context of two chunks, for the same question.
C15_Witness ==
    /\ Formatted
    /\ Len(dq_results.content_blocks) = 1
    /\ Len(dq_results.all_results) = 2
    /\ SQReturned
    /\ Len(sq_result.returned.chunks) = 2

\* The content blocks of the source document that the indexers keep: topic
\* name, sub-type (absent when the block has none), block id and text.
RECURSIVE SourceBlocks(_)
SourceBlocks(topics) ==
    IF Len(topics) = 0 THEN {}
    ELSE LET t == topics[1].fields
         IN { [topic_name |-> t.topic_name, block |-> t.content_blocks[i].fields] :
                  i \in { k \in 1..Len(t.content_blocks) :
                              ~IsBlank(t.content_blocks[k].fields.text) } }
            \cup SourceBlocks(Tail(topics))

SourceTopicNames(topics) == { topics[i].fields.topic_name : i \in 1..Len(topics) }

\* The kind of chunk an indexed text is, read off its first piece.
KindOfText(text) ==
    IF text[1] = "Topic: " THEN "overview"
    ELSE IF text[1] = "Learning Objective: " THEN "objective"
    ELSE IF text[1] \in {"Allowed concepts for ", "Concepts: "} THEN "allowed"
    ELSE IF text[1] = "Disallowed concepts (too advanced): " THEN "disallowed"
    ELSE "content"

KindOfDocType(doc_type) ==
    IF doc_type \in {"topic_overview", "topic"} THEN "overview"
    ELSE IF doc_type \in {"learning_objective", "objective"} THEN "objective"
    ELSE IF doc_type \in {"allowed_concepts", "concepts"} THEN "allowed"
    ELSE IF doc_type = "disallowed_concepts" THEN "disallowed"
    ELSE "content"

\* A returned DocumentQA item carries the doc_type, topic name and block id of
\* the piece of the document it was built from.
DQItemKeepsOrigin(item, topics) ==
    /\ KindOfDocType(item.metadata.doc_type) = KindOfText(item.text)
    /\ item.metadata.topic_name \in SourceTopicNames(topics)
    /\ KindOfText(item.text) = "content" =>
           \E b \in SourceBlocks(topics) :
               /\ item.text = <<b.block.text>>
               /\ item.metadata.topic_name = b.topic_name
               /\ item.metadata.doc_type = "content_" \o Get(b.block, "type", "unknown")
               /\ item.metadata.block_id = b.block.block_id
    /\ KindOfText(item.text) = "overview" => item.text[2] = item.metadata.topic_name

\* A returned SmartQA chunk carries the doc_type and topic name of the piece
\* of the document it was built from; withBlockId: and its block id.
SQChunkKeepsOrigin(chunk, topics, withBlockId) ==
    /\ KindOfDocType(chunk.type) = KindOfText(chunk.text)
    /\ chunk.topic \in SourceTopicNames(topics)
    /\ KindOfText(chunk.text) = "content" =>
           \E b \in SourceBlocks(topics) :
               /\ chunk.text = <<b.block.text>>
               /\ chunk.topic = b.topic_name
               /\ chunk.type = "content_" \o Get(b.block, "type", "text")
               /\ withBlockId =>
                      ("block_id" \in DOMAIN chunk /\ chunk.block_id = b.block.block_id)
    /\ KindOfText(chunk.text) = "overview" => chunk.text[2] = chunk.topic

\* C16 as claimed: every chunk a query returns carries the doc_type, topic
\* name and block id it had at indexing time, on the DocumentQA path and on
\* the SmartQA path.
C16_BothPathsKeepBlockId ==
    /\ Asked => \A k \in 1..Len(dq_results.all_results) :
                    DQItemKeepsOrigin(dq_results.all_results[k], ix_data)
    /\ SQReturned => \A k \in 1..Len(sq_result.returned.chunks) :
                         SQChunkKeepsOrigin(sq_result.returned.chunks[k], ix_data, TRUE)

\* C16 amended: a result of DocumentQA.ask carries the metadata it was
\* indexed with unmodified (doc_type, topic name and, for a content block,
\* block id), before and after formatting; a chunk returned by SmartQA
\* carries the doc_type and topic name it was indexed with and no block id:
\* SmartQA's indexer stores none.
C16_MetadataRoundTrip ==
    /\ Asked => \A k \in 1..Len(dq_results.all_results) :
                    /\ DQItemKeepsOrigin(dq_results.all_results[k], ix_data)
                    /\ \E d \in 1..Len(Qa.documents) :
                           /\ Qa.documents[d].text = dq_results.all_results[k].text
                           /\ Qa.documents[d].metadata = dq_results.all_results[k].metadata
    /\ SQReturned => \A k \in 1..Len(sq_result.returned.chunks) :
                         /\ SQChunkKeepsOrigin(sq_result.returned.chunks[k], ix_data, FALSE)
                         /\ DOMAIN sq_result.returned.chunks[k]
                                = {"text", "type", "topic", "relevance"}

\* C16 witness: after formatting, the DocumentQA result holds a content block
\* with its block id, and SmartQA returned a content chunk of the same
\* document.
C16_Witness ==
    /\ Formatted
    /\ \E k \in 1..Len(dq_results.content_blocks) :
           dq_results.content_blocks[k].metadata.block_id = "B1"
    /\ SQReturned
    /\ \E k \in 1..Len(sq_result.returned.chunks) :
           KindOfText(sq_result.returned.chunks[k].text) = "content"

\* C17: two identical questions put to SmartQA.ask back-to-back, with the
\* mapping, the documents and the embedding function fixed, select the same
\* chapter and return the same chunks in the same order with the same scores:
\* when the previous call returned for this question, this call returns the
\* same.
C17_RepeatedQuestionSameResult ==
    (pc = "respond" /\ "question" \in DOMAIN prev_ask /\ prev_ask.question = search_query)
        => AskReturned(search_result) = prev_ask

\* C18: with the single chapter "Fractions" mapped to the one-topic document
\* (one objective, one definition block, no concept lists), the router
\* selects "Fractions", the index holds exactly the 3 chunks overview,
\* objective, definition, and when the definition chunk ranks highest and the
\* chapter relevance passes the 0.45 gate the context holds a [DEFINITION #1]
\* label followed by the block's exact text.
C18_FractionsScenario ==
    (ix_data = <<TopicScenario>> /\ SQReturned) =>
        LET returned == sq_result.returned
            index == collections[sq_result.collection]
        IN /\ returned.chapter = "Fractions"
           /\ [i \in 1..Len(index) |-> index[i].metadata.doc_type]
                  = <<"topic", "objective", "content_definition">>
           /\ (/\ returned.chunks[1].type = "content_definition"
               /\ ~BelowThreshold(returned.chapter_relevance))
                  => \E k \in 1..(Len(returned.context) - 1) :
                         /\ Len(returned.context[k]) >= 5
                         /\ SubSeq(returned.context[k], 1, 5)
                                = <<"\n[", "DEFINITION", " #", "1", "] (Relevance: ">>
                         /\ returned.context[k + 1]
                                = <<"A fraction represents a part of a whole.">>

\* C18 witness: the scenario's question was answered with the definition
\* chunk first and a chapter relevance above the gate.
C18_Witness ==
    /\ ix_data = <<TopicScenario>>
    /\ SQReturned
    /\ sq_result.returned.question = "q_define"
    /\ sq_result.returned.chunks[1].type = "content_definition"
    /\ sq_result.returned.chapter_relevance >= RelevanceThreshold

IdsOf(entries) == { entries[i].id : i \in 1..Len(entries) }

TextsOf(entries) == [i \in 1..Len(entries) |-> entries[i].document]

\* C20 as claimed: two indexes built from the same document share no chunk
\* id.
C20_IdsNeverReused ==
    \A n1 \in DOMAIN collections, n2 \in DOMAIN collections :
        (n1 # n2 /\ TextsOf(collections[n1]) = TextsOf(collections[n2]))
            => IdsOf(collections[n1]) \cap IdsOf(collections[n2]) = {}

\* C20 amended: chunk ids are unique within one index only: every build
\* numbers its chunks "0", "1", ... in order, so a rebuild of the same
\* document assigns the same ids again.
C20_IdsRestartEachBuild ==
    \A n \in DOMAIN collections :
        /\ \A i \in 1..Len(collections[n]) : collections[n][i].id = ToString(i - 1)
        /\ Cardinality(IdsOf(collections[n])) = Len(collections[n])
        /\ \A m \in DOMAIN collections :
               TextsOf(collections[m]) = TextsOf(collections[n])
                   => IdsOf(collections[m]) = IdsOf(collections[n])

\* C20 witness: the document was indexed twice by DocumentQA and twice by
\* SmartQA queries, and all four indexes are in the store.
C20_Witness ==
    /\ Len(dq_objects) = 2
    /\ \E n1 \in CollectionNames, n2 \in CollectionNames :
           /\ n1 # n2
           /\ {n1, n2} \subseteq DOMAIN collections
           /\ Len(collections[n1]) > 2
           /\ TextsOf(collections[n1]) = TextsOf(collections[n2])

-----------------------------------------------------------------------------
(* Properties of the indexers (SpecIndex), continued *)

IdsInOrder(docs) == \A i \in 1..Len(docs) : docs[i].id = ToString(i - 1)

DocIds(docs) == { docs[i].id : i \in 1..Len(docs) }

\* C21: within one build the ids are pairwise distinct and come from a
\* counter that starts at 0 and advances by one per emitted chunk: the k-th
\* chunk of the document, counted across its topics, has id str(k-1), and an
\* empty concept list or a blank block takes no id, so the last id is the
\* number of emitted chunks minus one.
C21_IdsFollowEmissionOrder ==
    /\ "dq" \in ix_done =>
           /\ IdsInOrder(dq_documents)
           /\ Cardinality(DocIds(dq_documents)) = Len(dq_documents)
           /\ Len(dq_documents) = Len(ExpectedDocument(ix_data, TRUE))
    /\ "sq" \in ix_done =>
           /\ IdsInOrder(sq_documents)
           /\ Cardinality(DocIds(sq_documents)) = Len(sq_documents)
           /\ Len(sq_documents) = Len(ExpectedDocument(ix_data, FALSE))

\* C21 witness: a two-topic document with a blank block before a kept block
\* and two empty concept lists; the second topic's chunks continue the count.
C21_Witness ==
    /\ ix_done = {"dq", "sq"}
    /\ ix_data = <<TopicFractions, TopicDecimals>>
    /\ dq_documents[Len(dq_documents)].id = "10"
    /\ sq_documents[Len(sq_documents)].id = "9"
    /\ sq_documents[8].text = <<"Topic: ", "Decimals">>

\* The piece of the source document a chunk was built from.
SourceOfChunk(doc) ==
    IF ChunkClass(doc).class \in {"overview", "objective", "content"}
        THEN ChunkClass(doc).key
    ELSE doc.text[Len(doc.text)]

\* C22: no chunk is built from empty or whitespace-only source text, whatever
\* the document: every chunk of either indexer comes from a non-blank topic
\* name, objective, concept list or block text.
C22_NoChunkFromBlankSource ==
    /\ \A i \in 1..Len(dq_documents) : ~IsBlank(SourceOfChunk(dq_documents[i]))
    /\ \A i \in 1..Len(sq_documents) : ~IsBlank(SourceOfChunk(sq_documents[i]))

RECURSIVE SQExpectedCount(_)
SQExpectedCount(topics) ==
    IF Len(topics) = 0 THEN 0
    ELSE LET t == topics[1].fields
         IN 1 + Len(t.learning_objectives)
              + (IF t.allowed_concepts # <<>> THEN 1 ELSE 0)
              + Cardinality({ k \in 1..Len(t.content_blocks) :
                                  ~IsBlank(t.content_blocks[k].fields.text) })
              + SQExpectedCount(Tail(topics))

DisallowedStrings(topics) ==
    UNION { Range(topics[i].fields.disallowed_concepts) : i \in 1..Len(topics) }

SQDocTypes ==
    {"topic", "objective", "concepts"}
        \cup { "content_" \o t : t \in {"definition", "explanation", "example", "text"} }

\* C27: load_and_search builds no chunk from disallowed_concepts: the number
\* of chunks is, summed over the topics, 1 + objectives + (1 if any concept
\* is allowed) + non-blank content blocks; the doc types are topic,
\* objective, concepts and content_<type>; and no disallowed concept occurs
\* in any chunk text.
C27_ChatbotIndexOmitsDisallowed ==
    "sq" \in ix_done =>
        /\ Len(sq_documents) = SQExpectedCount(ix_data)
        /\ \A i \in 1..Len(sq_documents) :
               /\ sq_documents[i].metadata.doc_type \in SQDocTypes
               /\ sq_documents[i].text[1] # "Disallowed concepts (too advanced): "
               /\ Range(sq_documents[i].text) \cap DisallowedStrings(ix_data) = {}

\* C27 witness: a topic with a disallowed concept was indexed by both
\* indexers; DocumentQA made a chunk of it, load_and_search did not.
C27_Witness ==
    /\ ix_done = {"dq", "sq"}
    /\ DisallowedStrings(ix_data) # {}
    /\ \E i \in 1..Len(dq_documents) :
           dq_documents[i].metadata.doc_type = "disallowed_concepts"
    /\ Len(dq_documents) = Len(sq_documents) + 1

-----------------------------------------------------------------------------
(* Properties of the chatbot over a conversation (SpecChat, Spec) *)

\* C23: the chapter index is built once and is read-only afterwards: after
\* any number of find_chapter / ask calls it still is, entry by entry and in
\* order, the index the constructor built from the mapping (name, file, path
\* and cached embedding).
C23_ChapterIndexReadOnly ==
    (pc # "boot" /\ chatbot_instance = "ready") =>
        chapter_index = BuildChapterIndex(world.mapping.value)

\* C23 witness: a second request was routed to the last chapter of the index,
\* so the ranking find_chapter sorted differs from the index order.
C23_Witness ==
    /\ requests >= 2
    /\ Routed
    /\ Len(chapter_index) = 3
    /\ chapter.chapter_name = chapter_index[3].chapter_name
    /\ chapter_index[1].chapter_name = "Fractions"

AnswerReturned(o) ==
    /\ o.kind = "return"
    /\ "answer" \in DOMAIN o.value
    /\ o.value.chapter # "None"

\* C24: the chat history changes only when an answer is generated: a call
\* that ends in the refusal or in an error leaves it as it was, a call that
\* returns an answer appends the user's original question and then the
\* answer; so the history always has even length and alternates user and
\* assistant.
C24_HistoryGrowsOnlyOnAnswer ==
    /\ [](/\ Len(chat_history) % 2 = 0
          /\ \A i \in 1..Len(chat_history) :
                 chat_history[i].role = IF i % 2 = 1 THEN "user" ELSE "assistant")
    /\ [][(pc # "respond" /\ pc' = "respond") =>
              IF AnswerReturned(outcome')
                  THEN chat_history' = chat_history
                           \o << [role |-> "user", content |-> user_question],
                                 [role |-> "assistant", content |-> outcome'.value.answer] >>
              ELSE chat_history' = chat_history]_vars
    /\ [][(pc = "respond" \/ pc' # "respond") => chat_history' = chat_history]_vars

\* C24 witness: the second answer of a conversation, to a question that was
\* rewritten before the search, is in the history under the original question,
\* after a refusal in between.
C24_Witness ==
    /\ pc = "respond"
    /\ AnswerReturned(outcome)
    /\ requests = 3
    /\ search_query # user_question
    /\ Len(chat_history) = 4
    /\ chat_history[3].content = user_question
    /\ "chapter_relevance" \in DOMAIN prev_ask
    /\ BelowThreshold(prev_ask.chapter_relevance)

GateReached == pc = "respond" /\ "chapter_relevance" \in DOMAIN search_result

\* C25: the gate compares the chapter similarity rounded to 3 decimals by
\* ask, not the raw one: whenever ask returned, the call ends in the refusal
\* exactly when the rounded similarity is below 0.450 (a raw 0.4496 is not
\* refused, a raw 0.4494 is), and the relevance in the refusal and in the
\* success payload is the rounded value.
C25_GateUsesRoundedRelevance ==
    GateReached =>
        /\ search_result.chapter_relevance = Round3(chapter.similarity)
        /\ (Round3(chapter.similarity) < RelevanceThreshold)
               <=> (outcome.value = RefusalPayload(Round3(chapter.similarity)))
        /\ "answer" \in DOMAIN outcome.value =>
               outcome.value.relevance = Round3(chapter.similarity)

\* C25 witness: a question of raw similarity 0.4496 is answered with
\* relevance 0.450 right after one of raw similarity 0.4494 was refused with
\* relevance 0.449.
C25_Witness ==
    /\ GateReached
    /\ chapter.similarity = 4496
    /\ AnswerReturned(outcome)
    /\ outcome.value.relevance = 450
    /\ "chapter_relevance" \in DOMAIN prev_ask
    /\ prev_ask.chapter_relevance = 449

\* C26: query rewriting never makes the request fail and is skipped on the
\* first turn: with an empty history the search query is the question and no
\* LLM call is made; with a non-empty history the call is given exactly the
\* last 4 history entries (all of them when there are fewer), and when the
\* call raises the search query is the question.
C26_RewriteNeverFails ==
    [][pc = "rewrite" =>
           /\ pc' = "find_chapter"
           /\ outcome' = outcome
           /\ chat_history' = chat_history
           /\ chat_history = <<>> =>
                  (rewrite_call' = NoValue /\ search_query' = user_question)
           /\ chat_history # <<>> =>
                  /\ "history" \in DOMAIN rewrite_call'
                  /\ Len(rewrite_call'.history) = Min(4, Len(chat_history))
                  /\ \A i \in 1..Len(rewrite_call'.history) :
                         rewrite_call'.history[i]
                             = chat_history[Len(chat_history) - Len(rewrite_call'.history) + i]
                  /\ rewrite_call'.raised => search_query' = user_question]_vars

\* C26 witness: on the fourth turn, after three answers, the rewriting call
\* was built from entries 3..6 of the history of 6, raised, and the question
\* went on unchanged.
C26_Witness ==
    /\ "history" \in DOMAIN rewrite_call
    /\ Len(chat_history) = 6
    /\ Len(rewrite_call.history) = 4
    /\ rewrite_call.history[1] = chat_history[3]
    /\ rewrite_call.raised
    /\ search_query = user_question
    /\ pc = "find_chapter"

ZeroChapterMapping(w) ==
    /\ w.mapping.kind = "dict"
    /\ \A i \in 1..Len(w.mapping.value) : "chapters" \in DOMAIN w.mapping.value[i]
    /\ \A i \in 1..Len(w.mapping.value) : w.mapping.value[i].chapters = <<>>

\* C28: a mapping that parses to an object without any chapter does not fail
\* start-up: the chatbot comes up with an empty chapter index, and every
\* question then fails in find_chapter on the empty ranking and is answered
\* with the error response.
C28_EmptyMappingFailsPerQuestion ==
    (ZeroChapterMapping(world) /\ world.embedder_ok /\ world.api_key /\ pc # "boot") =>
        /\ chatbot_instance = "ready"
        /\ startup_error = <<>>
        /\ chapter_index = <<>>
        /\ pc \in {"idle", "rewrite", "find_chapter", "respond"}
        /\ pc = "respond" => outcome = [kind |-> "return", value |-> [error |-> "IndexError"]]
        /\ (pc = "idle" /\ requests > 0) =>
               /\ http_response.status = 200
               /\ http_response.body.chapter = "System Error"
               /\ http_response.body.answer = <<"Chatbot Error: ", "IndexError">>

\* C28 witness: the mapping file is {} and two questions have been answered
\* with the error response.
C28_Witness ==
    /\ world.mapping = FileItems(<<>>)
    /\ pc = "idle"
    /\ requests = 2
    /\ chatbot_instance = "ready"
    /\ http_response.body.chapter = "System Error"

-----------------------------------------------------------------------------
(* Properties of call_llm (SpecRetry) and of the quiz history (SpecQuiz) *)

AllFailed(calls) == \A i \in 1..Len(calls) : ~calls[i].ok

\* C29: call_llm with max_retries = k >= 1 makes at most k API attempts; it
\* returns the content of the first attempt that succeeds and makes no
\* further attempt; when all k attempts fail it raises the exception of the
\* k-th; and a call that was entered ends.
C29_AtMostKAttempts ==
    /\ [](max_retries >= 1 =>
              /\ Len(api_calls) <= max_retries
              /\ AllFailed(SubSeq(api_calls, 1, Len(api_calls) - 1))
              /\ llm_outcome.kind = "running" =>
                     /\ attempt = Len(api_calls)
                     /\ attempt < max_retries
                     /\ AllFailed(api_calls)
              /\ llm_outcome.kind = "return" =>
                     /\ Len(api_calls) >= 1
                     /\ api_calls[Len(api_calls)].ok
                     /\ llm_outcome.value = api_calls[Len(api_calls)].value
              /\ llm_outcome.kind = "raise" =>
                     /\ Len(api_calls) = max_retries
                     /\ AllFailed(api_calls)
                     /\ llm_outcome.value = api_calls[max_retries].value)
    /\ (llm_outcome.kind = "running") ~> (llm_outcome.kind \in {"return", "raise"})

\* C29 witness: with max_retries = 3 the third attempt failed with another
\* exception than the first, and that exception was raised.
C29_Witness ==
    /\ max_retries = 3
    /\ llm_outcome.kind = "raise"
    /\ Len(api_calls) = 3
    /\ api_calls[1].value # api_calls[3].value
    /\ llm_outcome.value = api_calls[3].value

\* C30: starting from an absent or empty history file, after n calls of
\* save_quiz_result the file holds exactly n records, in call order, the
\* i-th being the i-th result with id i (the length before the call plus
\* one); so no save changes an earlier record.
C30_HistoryIdsCountSaves ==
    /\ Len(quiz_calls) = 0 => history_file \in HistoryFiles
    /\ Len(quiz_calls) > 0 =>
           /\ history_file.kind = "list"
           /\ Len(history_file.value) = Len(quiz_calls)
           /\ \A i \in 1..Len(quiz_calls) :
                  history_file.value[i] = [id |-> i] @@ quiz_calls[i]
           /\ quiz_record = history_file.value[Len(quiz_calls)]

\* C30 witness: three results of different topics were saved to a file that
\* was of zero bytes or absent at first.
C30_Witness ==
    /\ Len(quiz_calls) = 3
    /\ history_file.value[3].id = 3
    /\ history_file.value[1].topic # history_file.value[3].topic
    /\ history_file.value[1] = [id |-> 1] @@ quiz_calls[1]

====
